---- MODULE Spec2Model ----
(***************************************************************************)
(* The term dictionary TermIndexU (graph/inmem/term_index_u.rs) and the    *)
(* triple store HashGraph built on it (graph/inmem/_hash_graph.rs).        *)
(*                                                                         *)
(* Indices keep the source's values (0-based); slot i of the vectors i2t   *)
(* and i2c is element i+1 of the sequences modelling them.  An             *)
(* Option<T> is a sequence of length at most one: None is <<>> and         *)
(* Some(x) is <<x>>.                                                       *)
(***************************************************************************)
EXTENDS Integers, Sequences, FiniteSets, TLC

VARIABLES
    overflow_checks, \* build profile: TRUE = integer overflow panics, FALSE = it wraps
    panicked,        \* a call of the running specification panicked
    ti,              \* SpecDict: the TermIndexU under test
    tlast,           \* SpecDict: the last call on ti and what it returned
    was,             \* SpecDict: per free slot, the term it held before it was freed
    held,            \* SpecDict: the references the caller holds, index -> [term, refs]
    fstack,          \* SpecDict: the indices released to 0 and not handed out again,
                     \*           the latest first
    terms,           \* Spec: HashGraph.terms
    triples,         \* Spec: HashGraph.triples
    glast,           \* Spec: the last call on the graph and whether it returned Some
    stored,          \* Spec: the term triples inserted and not removed since
    narrow,          \* SpecWidth: a dictionary over the narrow index type
    wide,            \* SpecWidth: the same calls on a dictionary over the wide index type
    wret,            \* SpecWidth: what the last call returned, <<narrow's, wide's>>
    wpanic,          \* SpecWidth: which of the two has panicked, <<narrow, wide>>
    wrapped,         \* SpecWidth: an increment of make_index on narrow has overflowed
    ds,              \* SpecData: the quads of a dataset, in the order quads() visits them
    drain_items,     \* SpecDrain: the items of the source when try_for_each_quad is called
    drain_source,    \* SpecDrain: the items the source has not fed yet
    drain_f,         \* SpecDrain: the quads the closure was called on, in order
    drain_calls,     \* SpecDrain: the calls of try_for_some_quad made by the loop
    drain_ret,       \* SpecDrain: None while the loop runs, then what
                     \*            try_for_each_quad returned
    tsource,         \* SpecCollect: the triple source handed to from_triple_source,
                     \*              its items and its size hint
    collected        \* SpecCollect: None before the call, then what it returned
                     \*              (the graph itself is in terms and triples)

vars == <<overflow_checks, panicked, ti, tlast, was, held, fstack, terms, triples, glast, stored,
          narrow, wide, wret, wpanic, wrapped, ds,
          drain_items, drain_source, drain_f, drain_calls, drain_ret, tsource, collected>>

(***************************************************************************)
(* Bounds of the model.                                                    *)
(***************************************************************************)
\* number of distinct term values offered to the dictionary specifications
NDictTerms == 3
\* number of distinct term values offered to the graph
NTerms == 2
\* cap on a reference count reached through make_index / inc_ref
MaxRef == 3
\* cap on the number of stored triples
MaxTriples == 2
\* the largest number of quads a dataset holds
MaxQuads == 2
\* number of values of the narrow index type of SpecWidth (a scaled-down u16)
NarrowValues == 4

\* number of values of u16, the index type of impl_term_index!(u16)
U16Values == 65536

DictTerms == 1..NDictTerms
Terms == 1..NTerms

None == <<>>
Some(x) == <<x>>

(***************************************************************************)
(* TermIndexU<I, F>.  Field I is the number of values of the index type    *)
(* parameter: arithmetic on next_free and on the elements of i2c is        *)
(* arithmetic modulo I, or panics when the build checks overflow.          *)
(***************************************************************************)
new(I) ==
    [I |-> I, next_free |-> 0, i2t |-> <<>>, i2c |-> <<>>, t2i |-> <<>>]

\* HashMap::insert and HashMap::remove on t2i, a function from its keys
MapInsert(m, k, v) == [x \in (DOMAIN m) \cup {k} |-> IF x = k THEN v ELSE m[x]]
MapRemove(m, k) == [x \in (DOMAIN m) \ {k} |-> m[x]]

\* the outcome of a call: the dictionary it leaves, what it returns, whether it panicked
Ok(d, r) == [ti |-> d, ret |-> r, panic |-> FALSE]
Panic(d) == [ti |-> d, ret |-> None, panic |-> TRUE]

\* x + 1 and x - 1 on the index type
AddOverflows(d, x) == x + 1 >= d.I
SubOverflows(x) == x = 0
WrapAdd(d, x) == (x + 1) % d.I
WrapSub(d, x) == (x - 1) % d.I

get_index(d, t) == IF t \in DOMAIN d.t2i THEN Some(d.t2i[t]) ELSE None

\* get_term reading the slot after the one asked for.
get_term_off(d, i) == IF i + 1 < Len(d.i2t) THEN d.i2t[i + 2] ELSE None

get_term(d, i) == IF i < Len(d.i2t) THEN d.i2t[i + 1] ELSE None

\* make_index without the lookup of line 73: a live term is given a second slot
make_index_nodedup(d, t) ==
    LET i == d.next_free
        d1 == [d EXCEPT !.t2i = MapInsert(@, t, i)]
    IN  IF i = Len(d.i2t)
        THEN Ok([d1 EXCEPT !.next_free = WrapAdd(d, @),
                           !.i2t = Append(@, Some(t)),
                           !.i2c = Append(@, 1)], i)
        ELSE Ok([d1 EXCEPT !.next_free = d.i2c[i + 1],
                           !.i2t[i + 1] = Some(t),
                           !.i2c[i + 1] = 1], i)

\* make_index without line 86: a reused slot keeps its free-list link as refcount
make_index_keeplink(d, t) ==
    IF get_index(d, t) # None
    THEN Ok([d EXCEPT !.i2c[get_index(d, t)[1] + 1] = WrapAdd(d, @)], get_index(d, t)[1])
    ELSE LET i == d.next_free
             d1 == [d EXCEPT !.t2i = MapInsert(@, t, i)]
         IN  IF i = Len(d.i2t)
             THEN Ok([d1 EXCEPT !.next_free = WrapAdd(d, @),
                                !.i2t = Append(@, Some(t)),
                                !.i2c = Append(@, 1)], i)
             ELSE Ok([d1 EXCEPT !.next_free = d.i2c[i + 1],
                                !.i2t[i + 1] = Some(t)], i)

\* make_index without line 74: a live term's refcount is not incremented
make_index_noinc(d, t) ==
    IF get_index(d, t) # None
    THEN Ok(d, get_index(d, t)[1])
    ELSE make_index_nodedup(d, t)

\* make_index that appends a slot for every new term, free slot or not.
make_index_alwayspush(d, t) ==
    IF get_index(d, t) # None
    THEN LET i == get_index(d, t)[1]
         IN  Ok([d EXCEPT !.i2c[i + 1] = WrapAdd(d, @)], i)
    ELSE LET i == Len(d.i2t)
         IN  Ok([d EXCEPT !.t2i = MapInsert(@, t, i),
                          !.next_free = IF @ = i THEN WrapAdd(d, @) ELSE @,
                          !.i2t = Append(@, Some(t)),
                          !.i2c = Append(@, 1)], i)

\* make_index without line 85: a reused slot stays the head of the free list
make_index_keephead(d, t) ==
    IF get_index(d, t) # None
    THEN Ok([d EXCEPT !.i2c[get_index(d, t)[1] + 1] = WrapAdd(d, @)], get_index(d, t)[1])
    ELSE LET i == d.next_free
             d1 == [d EXCEPT !.t2i = MapInsert(@, t, i)]
         IN  IF i = Len(d.i2t)
             THEN Ok([d1 EXCEPT !.next_free = WrapAdd(d, @),
                                !.i2t = Append(@, Some(t)),
                                !.i2c = Append(@, 1)], i)
             ELSE Ok([d1 EXCEPT !.i2t[i + 1] = Some(t),
                                !.i2c[i + 1] = 1], i)

make_index(d, t) ==
    IF get_index(d, t) # None
    THEN LET i == get_index(d, t)[1]
         IN  IF i >= Len(d.i2c) THEN Panic(d)
             ELSE IF overflow_checks /\ AddOverflows(d, d.i2c[i + 1]) THEN Panic(d)
             ELSE Ok([d EXCEPT !.i2c[i + 1] = WrapAdd(d, @)], i)
    ELSE LET i == d.next_free
             d1 == [d EXCEPT !.t2i = MapInsert(@, t, i)]
         IN  IF i = Len(d.i2t)
             THEN IF overflow_checks /\ AddOverflows(d, d.next_free) THEN Panic(d1)
                  ELSE Ok([d1 EXCEPT !.next_free = WrapAdd(d, @),
                                     !.i2t = Append(@, Some(t)),
                                     !.i2c = Append(@, 1)], i)
             ELSE IF i >= Len(d.i2c) THEN Panic(d1)
                  ELSE Ok([d1 EXCEPT !.next_free = d.i2c[i + 1],
                                     !.i2t[i + 1] = Some(t),
                                     !.i2c[i + 1] = 1], i)

\* inc_ref that counts nothing.
inc_ref_noop(d, i) == IF i >= Len(d.i2c) THEN Panic(d) ELSE Ok(d, None)

inc_ref(d, i) ==
    IF i >= Len(d.i2c) THEN Panic(d)
    ELSE IF overflow_checks /\ AddOverflows(d, d.i2c[i + 1]) THEN Panic(d)
    ELSE Ok([d EXCEPT !.i2c[i + 1] = WrapAdd(d, @)], None)

\* dec_ref without line 110: the freed term's key stays in t2i
dec_ref_keepkey(d, i) ==
    LET c == WrapSub(d, d.i2c[i + 1])
    IN  IF c # 0 THEN Ok([d EXCEPT !.i2c[i + 1] = c], None)
        ELSE Ok([d EXCEPT !.i2t[i + 1] = None,
                          !.i2c[i + 1] = d.next_free,
                          !.next_free = i], None)

\* dec_ref that frees the slot without linking it to the old head of the free
\* list.
dec_ref_nolink(d, i) ==
    IF i >= Len(d.i2c) THEN Panic(d)
    ELSE LET c == WrapSub(d, d.i2c[i + 1])
         IN  IF c # 0 THEN Ok([d EXCEPT !.i2c[i + 1] = c], None)
             ELSE IF d.i2t[i + 1] = None THEN Panic([d EXCEPT !.i2c[i + 1] = c])
                  ELSE Ok([d EXCEPT !.i2t[i + 1] = None,
                                    !.t2i = MapRemove(@, d.i2t[i + 1][1]),
                                    !.i2c[i + 1] = c,
                                    !.next_free = i], None)

\* dec_ref that frees the slot without making it the head of the free list.
dec_ref_nopush(d, i) ==
    IF i >= Len(d.i2c) THEN Panic(d)
    ELSE LET c == WrapSub(d, d.i2c[i + 1])
         IN  IF c # 0 THEN Ok([d EXCEPT !.i2c[i + 1] = c], None)
             ELSE IF d.i2t[i + 1] = None THEN Panic([d EXCEPT !.i2c[i + 1] = c])
                  ELSE Ok([d EXCEPT !.i2t[i + 1] = None,
                                    !.t2i = MapRemove(@, d.i2t[i + 1][1]),
                                    !.i2c[i + 1] = d.next_free], None)

dec_ref(d, i) ==
    IF i >= Len(d.i2c) THEN Panic(d)
    ELSE IF overflow_checks /\ SubOverflows(d.i2c[i + 1]) THEN Panic(d)
    ELSE LET c == WrapSub(d, d.i2c[i + 1])
         IN  IF c # 0 THEN Ok([d EXCEPT !.i2c[i + 1] = c], None)
             ELSE IF d.i2t[i + 1] = None
                  THEN Panic([d EXCEPT !.i2c[i + 1] = c])
                  ELSE Ok([d EXCEPT !.i2t[i + 1] = None,
                                    !.t2i = MapRemove(@, d.i2t[i + 1][1]),
                                    !.i2c[i + 1] = d.next_free,
                                    !.next_free = i], None)

\* the slots that hold a term, and the slots that hold none
Slots(d) == 0..(Len(d.i2t) - 1)
Live(d) == {i \in Slots(d) : d.i2t[i + 1] # None}
Free(d) == Slots(d) \ Live(d)

\* Vec::shrink_to_fit and HashMap::shrink_to_fit give back spare capacity and
\* keep the length and the elements; capacity is no part of the dictionary
\* record, so what is left of the call is the collection itself.
Vec_shrink_to_fit(v) == [k \in 1..Len(v) |-> v[k]]
HashMap_shrink_to_fit(m) == [k \in DOMAIN m |-> m[k]]

\* The factory's shrink_to_fit forgets the texts no term uses any more; the
\* terms stored in i2t keep theirs.
factory_shrink_to_fit(d) == d

\* shrink_to_fit that also drops the free slots at the end of the vectors.
shrink_to_fit_truncate(d) ==
    LET n == IF Live(d) = {} THEN 0
             ELSE (CHOOSE i \in Live(d) : \A j \in Live(d) : j <= i) + 1
    IN  Ok([d EXCEPT !.i2c = SubSeq(@, 1, n), !.i2t = SubSeq(@, 1, n)], None)

\* The debug assertion at the end is modelled as compiled in.
shrink_to_fit(d) ==
    LET d1 == factory_shrink_to_fit(d)
        d2 == [d1 EXCEPT !.i2c = Vec_shrink_to_fit(@),
                         !.i2t = Vec_shrink_to_fit(@),
                         !.t2i = HashMap_shrink_to_fit(@)]
    IN  IF Len(d2.i2c) # Len(d2.i2t) THEN Panic(d2) ELSE Ok(d2, None)

(***************************************************************************)
(* SpecDict: one dictionary over u16, driven by make_index, inc_ref and    *)
(* dec_ref within their preconditions (inc_ref and dec_ref on a live       *)
(* index).                                                                 *)
(***************************************************************************)
dictVars == <<ti, tlast, was, held, fstack>>
graphVars == <<terms, triples, glast, stored>>
widthVars == <<narrow, wide, wret, wpanic, wrapped>>
dataVars == <<ds>>
drainVars == <<drain_items, drain_source, drain_f, drain_calls, drain_ret>>
collectVars == <<tsource, collected>>
sourceVars == <<drainVars, collectVars>>

IdleDict ==
    /\ ti = new(U16Values) /\ tlast = [op |-> "idle"] /\ was = <<>>
    /\ held = <<>> /\ fstack = <<>>
IdleGraph ==
    /\ terms = new(U16Values) /\ triples = {}
    /\ glast = [op |-> "idle"] /\ stored = {}
IdleWidth ==
    /\ narrow = new(NarrowValues) /\ wide = new(U16Values)
    /\ wret = <<None, None>> /\ wpanic = <<FALSE, FALSE>> /\ wrapped = FALSE
IdleData == ds = <<>>
IdleDrain ==
    /\ drain_items = <<>> /\ drain_source = <<>> /\ drain_f = <<>>
    /\ drain_calls = 0 /\ drain_ret = <<>>
IdleCollect ==
    /\ tsource = [items |-> <<>>, hint |-> <<0, <<>>>>] /\ collected = <<>>
IdleSources == IdleDrain /\ IdleCollect

\* The dictionary is built without overflow checks (the release profile).  No
\* increment or decrement reaches a limit of u16 within the bounds of SpecDict,
\* so a build with overflow checks takes the same steps.
InitDict ==
    /\ overflow_checks = FALSE
    /\ panicked = FALSE
    /\ ti = new(U16Values)
    /\ tlast = [op |-> "new", arg |-> 0, fresh |-> FALSE, reused |-> FALSE,
                again |-> FALSE, freed |-> FALSE]
    /\ was = <<>>
    /\ held = <<>>
    /\ fstack = <<>>
    /\ IdleGraph /\ IdleWidth /\ IdleData /\ IdleSources

\* The caller's side of the calls, kept from their arguments and results alone:
\* make_index(t) = i and inc_ref(i) add a reference to i, dec_ref(i) gives one
\* back, and an index whose last reference is given back goes on top of fstack,
\* from where the next interning of a term the caller holds no reference to
\* takes one off.
HeldTerms == {held[i].term : i \in DOMAIN held}
Retain(i, t) ==
    IF i \in DOMAIN held THEN [held EXCEPT ![i].refs = @ + 1]
    ELSE MapInsert(held, i, [term |-> t, refs |-> 1])
Release(i) ==
    IF held[i].refs > 1 THEN [held EXCEPT ![i].refs = @ - 1] ELSE MapRemove(held, i)

\* make_index(t).  arg: t; fresh: t was not live; reused: t was given a freed slot
\* that last held another term; again: the call before was make_index(t) on the
\* then not live t.
MakeIndex(t) ==
    /\ ~panicked
    /\ get_index(ti, t) # None => ti.i2c[get_index(ti, t)[1] + 1] < MaxRef
    /\ LET r == make_index(ti, t)
           isfresh == get_index(ti, t) = None
       IN  /\ ti' = r.ti
           /\ panicked' = r.panic
           /\ tlast' = [op |-> "make_index", arg |-> t, fresh |-> isfresh,
                        reused |-> /\ isfresh /\ ti.next_free \in Free(ti)
                                   /\ was[ti.next_free + 1] # Some(t),
                        again |-> /\ tlast.op = "make_index" /\ tlast.arg = t
                                  /\ tlast.fresh,
                        freed |-> FALSE]
           /\ was' = [k \in 1..Len(r.ti.i2t) |->
                         IF r.ti.i2t[k] = None /\ k <= Len(was) THEN was[k] ELSE None]
           /\ held' = Retain(r.ret, t)
    /\ fstack' = IF t \notin HeldTerms /\ fstack # <<>> THEN Tail(fstack) ELSE fstack
    /\ UNCHANGED <<overflow_checks, graphVars, widthVars, dataVars, sourceVars>>

\* inc_ref(i) on a live index
IncRef(i) ==
    /\ ~panicked
    /\ i \in Live(ti)
    /\ i \in DOMAIN held
    /\ ti.i2c[i + 1] < MaxRef
    /\ LET r == inc_ref(ti, i)
       IN  /\ ti' = r.ti
           /\ panicked' = r.panic
    /\ tlast' = [op |-> "inc_ref", arg |-> 0, fresh |-> FALSE, reused |-> FALSE,
                 again |-> FALSE, freed |-> FALSE]
    /\ held' = Retain(i, 0)
    /\ UNCHANGED <<was, fstack, overflow_checks, graphVars, widthVars, dataVars, sourceVars>>

\* dec_ref(i) on a live index.  freed: the call freed slot i
DecRef(i) ==
    /\ ~panicked
    /\ i \in Live(ti)
    /\ i \in DOMAIN held
    /\ LET r == dec_ref(ti, i)
       IN  /\ ti' = r.ti
           /\ panicked' = r.panic
           /\ was' = IF i \in Free(r.ti) THEN [was EXCEPT ![i + 1] = ti.i2t[i + 1]]
                     ELSE was
           /\ tlast' = [op |-> "dec_ref", arg |-> 0, fresh |-> FALSE,
                        reused |-> FALSE, again |-> FALSE, freed |-> i \in Free(r.ti)]
    /\ held' = Release(i)
    /\ fstack' = IF held[i].refs = 1 THEN <<i>> \o fstack ELSE fstack
    /\ UNCHANGED <<overflow_checks, graphVars, widthVars, dataVars, sourceVars>>

\* shrink_to_fit(): nothing the caller can observe changes, tlast included
ShrinkToFit ==
    /\ ~panicked
    /\ LET r == shrink_to_fit(ti)
       IN  ti' = r.ti /\ panicked' = r.panic
    /\ UNCHANGED <<tlast, was, held, fstack, overflow_checks, graphVars, widthVars,
                   dataVars, sourceVars>>

NextDict ==
    \/ \E t \in DictTerms : MakeIndex(t)
    \/ \E i \in Slots(ti) : IncRef(i)
    \/ \E i \in Slots(ti) : DecRef(i)
    \/ ShrinkToFit

SpecDict == InitDict /\ [][NextDict]_vars

(***************************************************************************)
(* HashGraph<I>: terms is a TermIndexU over u16, triples a HashSet of      *)
(* index triples.                                                          *)
(***************************************************************************)
\* the outcome of a call on the graph
GOk(d, tr, r) == [terms |-> d, triples |-> tr, ret |-> r, panic |-> FALSE]
GPanic(d, tr) == [terms |-> d, triples |-> tr, ret |-> None, panic |-> TRUE]

\* HashSet::insert and HashSet::remove: the set they leave and the bool they return
\* an insert that reports every key as new
HashSet_insert_always(tr, key) == [set |-> tr \cup {key}, modified |-> TRUE]

HashSet_insert(tr, key) == [set |-> tr \cup {key}, modified |-> key \notin tr]

\* a remove that reports the key as removed and leaves it in the set
HashSet_remove_keep(tr, key) == [set |-> tr, modified |-> key \in tr]

HashSet_remove(tr, key) == [set |-> tr \ {key}, modified |-> key \in tr]

\* the three make_index calls of insert_indexed, in the order s, p, o
make_index_each(d, s, p, o) ==
    LET r1 == make_index(d, s)
        r2 == make_index(r1.ti, p)
        r3 == make_index(r2.ti, o)
    IN  IF r1.panic THEN r1
        ELSE IF r2.panic THEN r2
        ELSE IF r3.panic THEN r3
        ELSE Ok(r3.ti, <<r1.ret, r2.ret, r3.ret>>)

\* no dec_ref call at all
dec_ref_each_none(d, key) == Ok(d, None)

\* the dec_ref calls for si and pi only
dec_ref_each_but_last(d, key) ==
    LET u1 == dec_ref(d, key[1])
    IN  dec_ref(u1.ti, key[2])

\* the three dec_ref calls of insert_indexed and of remove_indexed, in the order si, pi, oi
dec_ref_each(d, key) ==
    LET u1 == dec_ref(d, key[1])
        u2 == dec_ref(u1.ti, key[2])
        u3 == dec_ref(u2.ti, key[3])
    IN  IF u1.panic THEN u1
        ELSE IF u2.panic THEN u2
        ELSE u3

\* The three dec_ref calls as they are issued: for each the dictionary it is
\* made on and the index it targets.
DecRefCalls(d, key) ==
    LET u1 == dec_ref(d, key[1])
        u2 == dec_ref(u1.ti, key[2])
    IN  <<[ti |-> d, i |-> key[1]], [ti |-> u1.ti, i |-> key[2]],
          [ti |-> u2.ti, i |-> key[3]]>>

\* insert_indexed that releases the three indices whether or not the triple
\* was new.
insert_indexed_release_always(d, tr, s, p, o) ==
    LET m == make_index_each(d, s, p, o)
        ins == HashSet_insert(tr, m.ret)
        u == dec_ref_each(m.ti, m.ret)
    IN  IF m.panic THEN GPanic(m.ti, tr)
        ELSE IF u.panic THEN GPanic(u.ti, ins.set)
        ELSE GOk(u.ti, ins.set, IF ins.modified THEN Some(m.ret) ELSE None)

insert_indexed(d, tr, s, p, o) ==
    LET m == make_index_each(d, s, p, o)
        ins == HashSet_insert(tr, m.ret)
        u == dec_ref_each(m.ti, m.ret)
    IN  IF m.panic THEN GPanic(m.ti, tr)
        ELSE IF ins.modified THEN GOk(m.ti, ins.set, Some(m.ret))
        ELSE IF u.panic THEN GPanic(u.ti, ins.set)
        ELSE GOk(u.ti, ins.set, None)

\* remove_indexed releasing the three indices whether or not the triple was stored
remove_indexed_release_always(d, tr, s, p, o) ==
    LET si == get_index(d, s)
        pi == get_index(d, p)
        oi == get_index(d, o)
        key == <<si[1], pi[1], oi[1]>>
    IN  IF si # None /\ pi # None /\ oi # None
        THEN LET rem == HashSet_remove(tr, key)
                 u == dec_ref_each(d, key)
             IN  GOk(u.ti, rem.set, IF rem.modified THEN Some(key) ELSE None)
        ELSE GOk(d, tr, None)

\* remove_indexed that leaves the three references of the removed triple held.
remove_indexed_norelease(d, tr, s, p, o) ==
    LET si == get_index(d, s)
        pi == get_index(d, p)
        oi == get_index(d, o)
        key == <<si[1], pi[1], oi[1]>>
    IN  IF si # None /\ pi # None /\ oi # None
        THEN LET rem == HashSet_remove(tr, key)
             IN  GOk(d, rem.set, IF rem.modified THEN Some(key) ELSE None)
        ELSE GOk(d, tr, None)

remove_indexed(d, tr, s, p, o) ==
    LET si == get_index(d, s)
        pi == get_index(d, p)
        oi == get_index(d, o)
        key == <<si[1], pi[1], oi[1]>>
    IN  IF si # None /\ pi # None /\ oi # None
        THEN LET rem == HashSet_remove(tr, key)
                 u == dec_ref_each(d, key)
             IN  IF rem.modified
                 THEN IF u.panic THEN GPanic(u.ti, rem.set)
                      ELSE GOk(u.ti, rem.set, Some(key))
                 ELSE GOk(d, rem.set, None)
        ELSE GOk(d, tr, None)

\* HashGraph::len
len(tr) == Cardinality(tr)

\* HashSet::shrink_to_fit keeps the elements.
HashSet_shrink_to_fit(tr) == {key \in tr : TRUE}

HashGraph_shrink_to_fit(d, tr) ==
    LET r == shrink_to_fit(d)
    IN  IF r.panic THEN GPanic(r.ti, tr)
        ELSE GOk(r.ti, HashSet_shrink_to_fit(tr), None)

\* what triples() yields for one stored index triple: the three get_term results
Resolve(d, key) == <<get_term(d, key[1]), get_term(d, key[2]), get_term(d, key[3])>>
\* the term triples triples() yields
Yielded(d, tr) == {Resolve(d, key) : key \in tr}

(***************************************************************************)
(* Spec: a HashGraph driven by insert_indexed and remove_indexed on every  *)
(* triple over Terms.                                                      *)
(***************************************************************************)
\* As in SpecDict, the build is the one without overflow checks: no refcount
\* comes near the limit of u16 within the bounds of Spec.
Init ==
    /\ overflow_checks = FALSE
    /\ panicked = FALSE
    /\ terms = new(U16Values)
    /\ triples = {}
    /\ glast = [op |-> "new", some |-> FALSE, live3 |-> FALSE]
    /\ stored = {}
    /\ IdleDict /\ IdleWidth /\ IdleData /\ IdleSources

\* insert_indexed(s, p, o); live3: s, p and o were all live before the call
Insert(s, p, o) ==
    /\ ~panicked
    /\ len(triples) < MaxTriples \/ <<s, p, o>> \in stored
    /\ LET r == insert_indexed(terms, triples, s, p, o)
       IN  /\ terms' = r.terms
           /\ triples' = r.triples
           /\ panicked' = r.panic
           /\ glast' = [op |-> "insert", some |-> r.ret # None,
                        live3 |-> \A x \in {s, p, o} : get_index(terms, x) # None]
    /\ stored' = stored \cup {<<s, p, o>>}
    /\ UNCHANGED <<overflow_checks, dictVars, widthVars, dataVars, sourceVars>>

\* remove_indexed(s, p, o)
Remove(s, p, o) ==
    /\ ~panicked
    /\ LET r == remove_indexed(terms, triples, s, p, o)
       IN  /\ terms' = r.terms
           /\ triples' = r.triples
           /\ panicked' = r.panic
           /\ glast' = [op |-> "remove", some |-> r.ret # None,
                        live3 |-> \A x \in {s, p, o} : get_index(terms, x) # None]
    /\ stored' = stored \ {<<s, p, o>>}
    /\ UNCHANGED <<overflow_checks, dictVars, widthVars, dataVars, sourceVars>>

\* shrink_to_fit()
GraphShrinkToFit ==
    /\ ~panicked
    /\ LET r == HashGraph_shrink_to_fit(terms, triples)
       IN  /\ terms' = r.terms
           /\ triples' = r.triples
           /\ panicked' = r.panic
    /\ glast' = [op |-> "shrink_to_fit", some |-> FALSE, live3 |-> FALSE]
    /\ UNCHANGED <<stored, overflow_checks, dictVars, widthVars, dataVars, sourceVars>>

Next ==
    \/ \E s, p, o \in Terms : Insert(s, p, o)
    \/ \E s, p, o \in Terms : Remove(s, p, o)
    \/ GraphShrinkToFit

Spec == Init /\ [][Next]_vars

(***************************************************************************)
(* SpecWidth: the same calls made on a dictionary over a narrow index type *)
(* and on one over a wide index type, for as long as both have returned    *)
(* the same results and the number of slots is within the narrow type's    *)
(* capacity.  inc_ref and dec_ref are called on indices live in both.      *)
(***************************************************************************)
WidthTerms == 1..NarrowValues
\* cap on the wide dictionary's reference counts: one past the narrow type's range
WidthMaxRef == NarrowValues + 1

InitWidth ==
    /\ overflow_checks \in BOOLEAN
    /\ panicked = FALSE
    /\ narrow = new(NarrowValues)
    /\ wide = new(U16Values)
    /\ wret = <<None, None>>
    /\ wpanic = <<FALSE, FALSE>>
    /\ wrapped = FALSE
    /\ IdleDict /\ IdleGraph /\ IdleData /\ IdleSources

InStep == wret[1] = wret[2] /\ wpanic = <<FALSE, FALSE>>

\* an increment of make_index(d, t) exceeds the index type: i2c[i] += 1 or next_free += 1
make_index_overflows(d, t) ==
    IF get_index(d, t) # None
    THEN get_index(d, t)[1] < Len(d.i2c) /\ AddOverflows(d, d.i2c[get_index(d, t)[1] + 1])
    ELSE d.next_free = Len(d.i2t) /\ AddOverflows(d, d.next_free)

WMakeIndex(t) ==
    /\ InStep
    /\ \/ get_index(wide, t) # None /\ wide.i2c[get_index(wide, t)[1] + 1] < WidthMaxRef
       \/ get_index(wide, t) = None /\ (Free(wide) # {} \/ Len(wide.i2t) < NarrowValues)
    /\ LET n == make_index(narrow, t)
           w == make_index(wide, t)
       IN  /\ narrow' = n.ti
           /\ wide' = w.ti
           /\ wpanic' = <<n.panic, w.panic>>
           /\ wret' = <<IF n.panic THEN None ELSE Some(n.ret),
                        IF w.panic THEN None ELSE Some(w.ret)>>
    /\ wrapped' = (wrapped \/ make_index_overflows(narrow, t))
    /\ UNCHANGED <<overflow_checks, panicked, dictVars, graphVars, dataVars, sourceVars>>

WIncRef(i) ==
    /\ InStep
    /\ i \in Live(narrow) \cap Live(wide)
    /\ wide.i2c[i + 1] < WidthMaxRef
    /\ LET n == inc_ref(narrow, i)
           w == inc_ref(wide, i)
       IN  /\ narrow' = n.ti
           /\ wide' = w.ti
           /\ wpanic' = <<n.panic, w.panic>>
    /\ wret' = <<None, None>>
    /\ UNCHANGED <<wrapped, overflow_checks, panicked, dictVars, graphVars, dataVars, sourceVars>>

WDecRef(i) ==
    /\ InStep
    /\ i \in Live(narrow) \cap Live(wide)
    /\ LET n == dec_ref(narrow, i)
           w == dec_ref(wide, i)
       IN  /\ narrow' = n.ti
           /\ wide' = w.ti
           /\ wpanic' = <<n.panic, w.panic>>
    /\ wret' = <<None, None>>
    /\ UNCHANGED <<wrapped, overflow_checks, panicked, dictVars, graphVars, dataVars, sourceVars>>

WGetIndex(t) ==
    /\ InStep
    /\ wret' = <<get_index(narrow, t), get_index(wide, t)>>
    /\ UNCHANGED <<narrow, wide, wpanic, wrapped, overflow_checks, panicked,
                   dictVars, graphVars, dataVars, sourceVars>>

WGetTerm(i) ==
    /\ InStep
    /\ wret' = <<get_term(narrow, i), get_term(wide, i)>>
    /\ UNCHANGED <<narrow, wide, wpanic, wrapped, overflow_checks, panicked,
                   dictVars, graphVars, dataVars, sourceVars>>

NextWidth ==
    \/ \E t \in WidthTerms : WMakeIndex(t)
    \/ \E i \in Slots(wide) : WIncRef(i)
    \/ \E i \in Slots(wide) : WDecRef(i)
    \/ \E t \in WidthTerms : WGetIndex(t)
    \/ \E i \in 0..NarrowValues : WGetTerm(i)

SpecWidth == InitWidth /\ [][NextWidth]_vars

(***************************************************************************)
(* Dataset: the provided methods of the Dataset trait over quads().  A     *)
(* dataset is a record [content, fail]: the quads it holds in the order    *)
(* quads() visits them, and the place of the visit at which quads() yields *)
(* an error instead of going on (0 for a dataset that never fails).  A     *)
(* quad is <<s, p, o, g>> with g an Option: None is the default graph.     *)
(***************************************************************************)
\* terms and graph names of the test fixture
QTerms == {"C1", "C2"}
GraphNames == {"G1", "G2"}
GraphName == {None} \cup {Some(n) : n \in GraphNames}
Quads == QTerms \X QTerms \X QTerms \X GraphName

\* The items of a fallible quad iterator: Ok(quad) or Err(error).
ItemOk(q) == [ok |-> TRUE, quad |-> q]
ItemErr == [ok |-> FALSE, quad |-> <<>>]

\* DResult<bool>
ResultOk(v) == [ok |-> TRUE, val |-> v]
ResultErr == [ok |-> FALSE, val |-> FALSE]

\* quads(): every quad of the dataset, and the error where the visit fails;
\* the iterator goes on after the error.
quads(d) ==
    LET n == Len(d.content)
        oks == [k \in 1..n |-> ItemOk(d.content[k])]
    IN  IF d.fail \in 1..(n + 1)
        THEN SubSeq(oks, 1, d.fail - 1) \o <<ItemErr>> \o SubSeq(oks, d.fail, n)
        ELSE oks

\* filter_ok keeps the quads that pass the test, and every error.
filter_ok(src, Test(_)) == SelectSeq(src, LAMBDA it : ~it.ok \/ Test(it.quad))

same_graph_name(g1, g2) == g1 = g2

quads_with_s(d, s) == filter_ok(quads(d), LAMBDA q : q[1] = s)
quads_with_p(d, p) == filter_ok(quads(d), LAMBDA q : q[2] = p)
quads_with_o(d, o) == filter_ok(quads(d), LAMBDA q : q[3] = o)
\* quads_with_g that takes the default graph for "any graph".
quads_with_g_default_any(d, g) ==
    IF g = None THEN quads(d)
    ELSE filter_ok(quads(d), LAMBDA q : same_graph_name(q[4], g))

quads_with_g(d, g) == filter_ok(quads(d), LAMBDA q : same_graph_name(q[4], g))
quads_with_sp(d, s, p) == filter_ok(quads_with_s(d, s), LAMBDA q : q[2] = p)
quads_with_so(d, s, o) == filter_ok(quads_with_s(d, s), LAMBDA q : q[3] = o)
quads_with_sg(d, s, g) == filter_ok(quads_with_g(d, g), LAMBDA q : q[1] = s)
quads_with_po(d, p, o) == filter_ok(quads_with_p(d, p), LAMBDA q : q[3] = o)
quads_with_pg(d, p, g) == filter_ok(quads_with_g(d, g), LAMBDA q : q[2] = p)
\* quads_with_og that scans by object and forgets the graph name.
quads_with_og_anygraph(d, o, g) == quads_with_o(d, o)

quads_with_og(d, o, g) == filter_ok(quads_with_g(d, g), LAMBDA q : q[3] = o)
quads_with_spo(d, s, p, o) == filter_ok(quads_with_sp(d, s, p), LAMBDA q : q[3] = o)
quads_with_spg(d, s, p, g) == filter_ok(quads_with_sg(d, s, g), LAMBDA q : q[2] = p)
quads_with_sog(d, s, o, g) == filter_ok(quads_with_sg(d, s, g), LAMBDA q : q[3] = o)
quads_with_pog(d, p, o, g) == filter_ok(quads_with_pg(d, p, g), LAMBDA q : q[3] = o)

quads_with_spog(d, s, p, o, g) ==
    filter_ok(quads_with_spg(d, s, p, g), LAMBDA q : q[3] = o)

\* contains that takes any first item, an error too, for a quad.
contains_any_item(d, s, p, o, g) ==
    IF quads_with_spog(d, s, p, o, g) = <<>> THEN ResultOk(FALSE) ELSE ResultOk(TRUE)

\* contains looks at the first item of the scan only.
contains(d, s, p, o, g) ==
    LET src == quads_with_spog(d, s, p, o, g)
    IN  IF src = <<>> THEN ResultOk(FALSE)
        ELSE IF src[1].ok THEN ResultOk(TRUE)
        ELSE ResultErr

\* graph_names written as its neighbour subjects() is: the subject of every
\* quad is collected.
graph_names_as_subjects(d) ==
    LET src == quads(d)
    IN  IF \E k \in 1..Len(src) : ~src[k].ok THEN ResultErr
        ELSE ResultOk({src[k].quad[1] : k \in 1..Len(src)})

\* graph_names visits quads(); q? returns the first error; the name of every
\* quad whose graph name is Some(name) is put into the set.
graph_names(d) ==
    LET src == quads(d)
        named == {k \in 1..Len(src) : src[k].quad[4] # None}
    IN  IF \E k \in 1..Len(src) : ~src[k].ok THEN ResultErr
        ELSE ResultOk({src[k].quad[4][1] : k \in named})

\* A matcher is a record [constant, accepts]: what constant() returns, and the
\* set of the values matches() accepts.  constant() of a graph name matcher is
\* an Option of a graph name, itself an Option.
constant(m) == m.constant
matches(m, x) == x \in m.accepts

\* quads_matching that asks every matcher, those with a constant as well,
\* whether it matches.
quads_matching_match_all(d, ms, mp, mo, mg) ==
    filter_ok(quads(d),
              LAMBDA q : /\ matches(ms, q[1]) /\ matches(mp, q[2])
                         /\ matches(mo, q[3]) /\ matches(mg, q[4])
                         /\ constant(ms) # None => q[1] = constant(ms)[1]
                         /\ constant(mp) # None => q[2] = constant(mp)[1]
                         /\ constant(mo) # None => q[3] = constant(mo)[1]
                         /\ constant(mg) # None => q[4] = constant(mg)[1])

\* quads_matching that scans by subject alone when subject and object are
\* constant.
quads_matching_so_as_s(d, ms, mp, mo, mg) ==
    LET s == constant(ms)
        p == constant(mp)
        o == constant(mo)
        g == constant(mg)
    IN  IF s # None /\ p = None /\ o # None /\ g = None
        THEN filter_ok(quads_with_s(d, s[1]),
                       LAMBDA q : matches(mp, q[2]) /\ matches(mg, q[4]))
        ELSE filter_ok(quads(d),
                       LAMBDA q : /\ matches(ms, q[1]) /\ matches(mp, q[2])
                                  /\ matches(mo, q[3]) /\ matches(mg, q[4]))

quads_matching(d, ms, mp, mo, mg) ==
    LET s == constant(ms)
        p == constant(mp)
        o == constant(mo)
        g == constant(mg)
    IN  CASE s = None /\ p = None /\ o = None /\ g = None ->
                filter_ok(quads(d),
                          LAMBDA q : /\ matches(ms, q[1]) /\ matches(mp, q[2])
                                     /\ matches(mo, q[3]) /\ matches(mg, q[4]))
          [] s # None /\ p = None /\ o = None /\ g = None ->
                filter_ok(quads_with_s(d, s[1]),
                          LAMBDA q : /\ matches(mp, q[2]) /\ matches(mo, q[3])
                                     /\ matches(mg, q[4]))
          [] s = None /\ p # None /\ o = None /\ g = None ->
                filter_ok(quads_with_p(d, p[1]),
                          LAMBDA q : /\ matches(ms, q[1]) /\ matches(mo, q[3])
                                     /\ matches(mg, q[4]))
          [] s = None /\ p = None /\ o # None /\ g = None ->
                filter_ok(quads_with_o(d, o[1]),
                          LAMBDA q : /\ matches(ms, q[1]) /\ matches(mp, q[2])
                                     /\ matches(mg, q[4]))
          [] s = None /\ p = None /\ o = None /\ g # None ->
                filter_ok(quads_with_g(d, g[1]),
                          LAMBDA q : /\ matches(ms, q[1]) /\ matches(mp, q[2])
                                     /\ matches(mo, q[3]))
          [] s # None /\ p # None /\ o = None /\ g = None ->
                filter_ok(quads_with_sp(d, s[1], p[1]),
                          LAMBDA q : matches(mo, q[3]) /\ matches(mg, q[4]))
          [] s # None /\ p = None /\ o # None /\ g = None ->
                filter_ok(quads_with_so(d, s[1], o[1]),
                          LAMBDA q : matches(mp, q[2]) /\ matches(mg, q[4]))
          [] s # None /\ p = None /\ o = None /\ g # None ->
                filter_ok(quads_with_sg(d, s[1], g[1]),
                          LAMBDA q : matches(mp, q[2]) /\ matches(mo, q[3]))
          [] s = None /\ p # None /\ o # None /\ g = None ->
                filter_ok(quads_with_po(d, p[1], o[1]),
                          LAMBDA q : matches(ms, q[1]) /\ matches(mg, q[4]))
          [] s = None /\ p # None /\ o = None /\ g # None ->
                filter_ok(quads_with_pg(d, p[1], g[1]),
                          LAMBDA q : matches(ms, q[1]) /\ matches(mo, q[3]))
          [] s = None /\ p = None /\ o # None /\ g # None ->
                filter_ok(quads_with_og(d, o[1], g[1]),
                          LAMBDA q : matches(ms, q[1]) /\ matches(mp, q[2]))
          [] s # None /\ p # None /\ o # None /\ g = None ->
                filter_ok(quads_with_spo(d, s[1], p[1], o[1]),
                          LAMBDA q : matches(mg, q[4]))
          [] s # None /\ p # None /\ o = None /\ g # None ->
                filter_ok(quads_with_spg(d, s[1], p[1], g[1]),
                          LAMBDA q : matches(mo, q[3]))
          [] s # None /\ p = None /\ o # None /\ g # None ->
                filter_ok(quads_with_sog(d, s[1], o[1], g[1]),
                          LAMBDA q : matches(mp, q[2]))
          [] s = None /\ p # None /\ o # None /\ g # None ->
                filter_ok(quads_with_pog(d, p[1], o[1], g[1]),
                          LAMBDA q : matches(ms, q[1]))
          [] s # None /\ p # None /\ o # None /\ g # None ->
                quads_with_spog(d, s[1], p[1], o[1], g[1])

\* The visiting order of the modelled dataset: by subject, predicate, object,
\* graph name, the default graph first.
TermKey(t) == IF t = "C1" THEN 0 ELSE 1
GraphKey(g) == IF g = None THEN 0 ELSE IF g = Some("G1") THEN 1 ELSE 2
QuadKey(q) ==
    ((TermKey(q[1]) * 2 + TermKey(q[2])) * 2 + TermKey(q[3])) * 3 + GraphKey(q[4])

Range(c) == {c[k] : k \in 1..Len(c)}

\* insert and remove of a set-flavoured dataset: the content changes, and
\* true is returned, exactly when the quad was absent (present).
\* insert that takes a quad for present when its triple is, in any graph.
insert_ignoring_graph(c, q) ==
    IF \E x \in Range(c) : x[1] = q[1] /\ x[2] = q[2] /\ x[3] = q[3]
    THEN [content |-> c, ret |-> FALSE]
    ELSE LET k == Cardinality({j \in 1..Len(c) : QuadKey(c[j]) < QuadKey(q)})
         IN  [content |-> SubSeq(c, 1, k) \o <<q>> \o SubSeq(c, k + 1, Len(c)),
              ret |-> TRUE]

insert(c, q) ==
    IF q \in Range(c) THEN [content |-> c, ret |-> FALSE]
    ELSE LET k == Cardinality({j \in 1..Len(c) : QuadKey(c[j]) < QuadKey(q)})
         IN  [content |-> SubSeq(c, 1, k) \o <<q>> \o SubSeq(c, k + 1, Len(c)),
              ret |-> TRUE]

remove(c, q) ==
    [content |-> SelectSeq(c, LAMBDA x : x # q), ret |-> q \in Range(c)]

(***************************************************************************)
(* The streaming protocol and the bulk mutations built on it.  A source is *)
(* the sequence of items it has still to deliver, a quad or an error each. *)
(* A mutable dataset m has, next to content and fail, the number of insert *)
(* and remove calls its backend accepts before it raises a MutationError:  *)
(* writes, None for a backend that never fails.  A failing call leaves the *)
(* content as it was.  Every handler logs the events of its run: log.      *)
(***************************************************************************)
StreamOk(v) == [kind |-> "Ok", val |-> v]
SourceError == [kind |-> "SourceError"]
SinkError == [kind |-> "SinkError"]

Ev(kind, q) == [ev |-> kind, quad |-> q]

Accept(m, c) ==
    [m EXCEPT !.content = c,
              !.writes = IF @ = None THEN None ELSE Some(@[1] - 1)]

MutableDataset_insert(m, q) ==
    IF m.writes = Some(0) THEN [md |-> m, ok |-> FALSE, ret |-> FALSE]
    ELSE LET r == insert(m.content, q)
         IN  [md |-> Accept(m, r.content), ok |-> TRUE, ret |-> r.ret]

MutableDataset_remove(m, q) ==
    IF m.writes = Some(0) THEN [md |-> m, ok |-> FALSE, ret |-> FALSE]
    ELSE LET r == remove(m.content, q)
         IN  [md |-> Accept(m, r.content), ok |-> TRUE, ret |-> r.ret]

\* insert_all's closure that counts every quad it is given.
insert_all_closure_count_items(st, q) ==
    LET r == MutableDataset_insert(st.md, q)
        logged == st.log \o <<Ev("insert", q)>>
    IN  IF ~r.ok THEN [st |-> [md |-> r.md, c |-> st.c, log |-> logged], ok |-> FALSE]
        ELSE [st |-> [md |-> r.md, c |-> st.c + 1, log |-> logged], ok |-> TRUE]

\* The closures of insert_all and remove_all, on what they capture: the
\* dataset and the counter c.
insert_all_closure(st, q) ==
    LET r == MutableDataset_insert(st.md, q)
        logged == st.log \o <<Ev("insert", q)>>
    IN  IF ~r.ok THEN [st |-> [md |-> r.md, c |-> st.c, log |-> logged], ok |-> FALSE]
        ELSE [st |-> [md |-> r.md, c |-> IF r.ret THEN st.c + 1 ELSE st.c, log |-> logged],
              ok |-> TRUE]

\* remove_all's closure that counts every quad it is given.
remove_all_closure_count_items(st, q) ==
    LET r == MutableDataset_remove(st.md, q)
        logged == st.log \o <<Ev("remove", q)>>
    IN  IF ~r.ok THEN [st |-> [md |-> r.md, c |-> st.c, log |-> logged], ok |-> FALSE]
        ELSE [st |-> [md |-> r.md, c |-> st.c + 1, log |-> logged], ok |-> TRUE]

remove_all_closure(st, q) ==
    LET r == MutableDataset_remove(st.md, q)
        logged == st.log \o <<Ev("remove", q)>>
    IN  IF ~r.ok THEN [st |-> [md |-> r.md, c |-> st.c, log |-> logged], ok |-> FALSE]
        ELSE [st |-> [md |-> r.md, c |-> IF r.ret THEN st.c + 1 ELSE st.c, log |-> logged],
              ok |-> TRUE]

Call(f, st, q) ==
    IF f = "insert_all" THEN insert_all_closure(st, q) ELSE remove_all_closure(st, q)

\* try_for_some_quad of a source made from an iterator: the next item, if
\* any, is taken from the source; an error is the source's failure, a quad is
\* given to the closure f, whose failure is the sink's.
try_for_some_quad(src, f, st) ==
    IF src = <<>> THEN [src |-> src, st |-> st, res |-> StreamOk(FALSE)]
    ELSE IF ~Head(src).ok THEN [src |-> Tail(src), st |-> st, res |-> SourceError]
    ELSE LET r == Call(f, st, Head(src).quad)
         IN  [src |-> Tail(src), st |-> r.st,
              res |-> IF r.ok THEN StreamOk(TRUE) ELSE SinkError]

\* try_for_each_quad that goes on with the next item after a failure of the sink.
RECURSIVE try_for_each_quad_no_short_circuit(_, _, _)
try_for_each_quad_no_short_circuit(src, f, st) ==
    CHOOSE out \in
        {IF r.res = SourceError THEN r
         ELSE IF r.res = SinkError
         THEN [try_for_each_quad_no_short_circuit(r.src, f, r.st) EXCEPT !.res = SinkError]
         ELSE IF r.res.val THEN try_for_each_quad_no_short_circuit(r.src, f, r.st)
         ELSE [src |-> r.src, st |-> r.st, res |-> StreamOk(<<>>)]
            : r \in {try_for_some_quad(src, f, st)}} : TRUE

\* try_for_each_quad that skips the errors of the source.
RECURSIVE try_for_each_quad_skip_errors(_, _, _)
try_for_each_quad_skip_errors(src, f, st) ==
    CHOOSE out \in
        {IF r.res = SinkError THEN r
         ELSE IF r.res = SourceError THEN try_for_each_quad_skip_errors(r.src, f, r.st)
         ELSE IF r.res.val THEN try_for_each_quad_skip_errors(r.src, f, r.st)
         ELSE [src |-> r.src, st |-> r.st, res |-> StreamOk(<<>>)]
            : r \in {try_for_some_quad(src, f, st)}} : TRUE

\* while self.try_for_some_quad(&mut f)? {}  Ok(())
\* r is the outcome of the one call of try_for_some_quad made in a turn of
\* the loop.
RECURSIVE try_for_each_quad(_, _, _)
try_for_each_quad(src, f, st) ==
    CHOOSE out \in
        {IF r.res.kind # "Ok" THEN r
         ELSE IF r.res.val THEN try_for_each_quad(r.src, f, r.st)
         ELSE [src |-> r.src, st |-> r.st, res |-> StreamOk(<<>>)]
            : r \in {try_for_some_quad(src, f, st)}} : TRUE

\* The outcome of a bulk mutation: the dataset, what is left of the source,
\* the result and the calls of insert or remove made, in order.
insert_all(m, src) ==
    LET r == try_for_each_quad(src, "insert_all", [md |-> m, c |-> 0, log |-> <<>>])
    IN  [md |-> r.st.md, src |-> r.src, log |-> r.st.log,
         res |-> IF r.res.kind = "Ok" THEN StreamOk(r.st.c) ELSE r.res]

remove_all(m, src) ==
    LET r == try_for_each_quad(src, "remove_all", [md |-> m, c |-> 0, log |-> <<>>])
    IN  [md |-> r.st.md, src |-> r.src, log |-> r.st.log,
         res |-> IF r.res.kind = "Ok" THEN StreamOk(r.st.c) ELSE r.res]

\* collect::<Result<Vec<_>, _>>() of a scan: the scan is visited up to its end
\* or to its first error, the quads before an error are dropped.
\* A collect that leaves the errors out and keeps the quads, as
\* filter_map(Result::ok) would.
collect_skip_errors(it) ==
    LET oks == SelectSeq(it, LAMBDA x : x.ok)
        vals == [k \in 1..Len(oks) |-> oks[k].quad]
    IN  [ok |-> TRUE, val |-> vals,
         log |-> [k \in 1..Len(vals) |-> Ev("next", vals[k])] \o <<Ev("none", <<>>)>>]

collect(it) ==
    LET n == Cardinality({k \in 1..Len(it) : \A j \in 1..k : it[j].ok})
        visited == [k \in 1..n |-> Ev("next", it[k].quad)]
    IN  IF n = Len(it)
        THEN [ok |-> TRUE, val |-> [k \in 1..n |-> it[k].quad],
              log |-> visited \o <<Ev("none", <<>>)>>]
        ELSE [ok |-> FALSE, val |-> <<>>, log |-> visited \o <<Ev("err", <<>>)>>]

\* into_iter().as_quad_source() of a vector of quads: a source that never fails.
as_quad_source(v) == [k \in 1..Len(v) |-> ItemOk(v[k])]

\* remove_matching that tells the graph name matcher nothing.
remove_matching_any_graph(m, ms, mp, mo, mg) ==
    LET to_remove == collect(quads_matching(m, ms, mp, mo,
                                            [constant |-> None, accepts |-> GraphName]))
        r == remove_all(m, as_quad_source(to_remove.val))
    IN  IF ~to_remove.ok THEN [md |-> m, res |-> ResultErr, log |-> to_remove.log]
        ELSE [md |-> r.md, log |-> to_remove.log \o r.log,
              res |-> IF r.res.kind = "Ok" THEN ResultOk(r.res.val) ELSE ResultErr]

\* remove_matching that removes each quad as the scan yields it.
RECURSIVE remove_in_scan(_, _)
remove_in_scan(m, it) ==
    IF it = <<>> THEN [md |-> m, c |-> 0, ok |-> TRUE, log |-> <<Ev("none", <<>>)>>]
    ELSE IF ~Head(it).ok THEN [md |-> m, c |-> 0, ok |-> FALSE, log |-> <<Ev("err", <<>>)>>]
    ELSE LET q == Head(it).quad
             r == MutableDataset_remove(m, q)
             events == <<Ev("next", q), Ev("remove", q)>>
             rest == remove_in_scan(r.md, Tail(it))
         IN  IF ~r.ok THEN [md |-> r.md, c |-> 0, ok |-> FALSE, log |-> events]
             ELSE [md |-> rest.md, c |-> rest.c + (IF r.ret THEN 1 ELSE 0),
                   ok |-> rest.ok, log |-> events \o rest.log]

remove_matching_in_place(m, ms, mp, mo, mg) ==
    LET r == remove_in_scan(m, quads_matching(m, ms, mp, mo, mg))
    IN  [md |-> r.md, log |-> r.log,
         res |-> IF r.ok THEN ResultOk(r.c) ELSE ResultErr]

remove_matching(m, ms, mp, mo, mg) ==
    LET to_remove == collect(quads_matching(m, ms, mp, mo, mg))
        r == remove_all(m, as_quad_source(to_remove.val))
    IN  IF ~to_remove.ok THEN [md |-> m, res |-> ResultErr, log |-> to_remove.log]
        ELSE [md |-> r.md, log |-> to_remove.log \o r.log,
              res |-> IF r.res.kind = "Ok" THEN ResultOk(r.res.val) ELSE ResultErr]

\* retain_matching whose filter keeps a quad as soon as one matcher rejects
\* it, written with || for &&.
retain_matching_any_position(m, ms, mp, mo, mg) ==
    LET to_remove == collect(filter_ok(quads(m), LAMBDA q :
                         ~(matches(ms, q[1]) \/ matches(mp, q[2])
                               \/ matches(mo, q[3]) \/ matches(mg, q[4]))))
        r == remove_all(m, as_quad_source(to_remove.val))
    IN  IF ~to_remove.ok THEN [md |-> m, res |-> ResultErr, log |-> to_remove.log]
        ELSE [md |-> r.md, log |-> to_remove.log \o r.log,
              res |-> IF r.res.kind = "Ok" THEN ResultOk(<<>>) ELSE ResultErr]

retain_matching(m, ms, mp, mo, mg) ==
    LET to_remove == collect(filter_ok(quads(m), LAMBDA q :
                         ~(matches(ms, q[1]) /\ matches(mp, q[2])
                               /\ matches(mo, q[3]) /\ matches(mg, q[4]))))
        r == remove_all(m, as_quad_source(to_remove.val))
    IN  IF ~to_remove.ok THEN [md |-> m, res |-> ResultErr, log |-> to_remove.log]
        ELSE [md |-> r.md, log |-> to_remove.log \o r.log,
              res |-> IF r.res.kind = "Ok" THEN ResultOk(<<>>) ELSE ResultErr]

(***************************************************************************)
(* SpecData: the content of one dataset, filled and emptied quad by quad.   *)
(* Whether and where quads() fails is a matter of the dataset's type, not  *)
(* of its state: the claims range over it.                                 *)
(***************************************************************************)
InitData ==
    /\ overflow_checks = FALSE
    /\ panicked = FALSE
    /\ ds = <<>>
    /\ IdleDict /\ IdleGraph /\ IdleWidth /\ IdleSources

\* The datasets with the content of the state: the one that never fails, the
\* one whose visit starts with an error, and those failing at any place.
dataset == [content |-> ds, fail |-> 0]
failing == [content |-> ds, fail |-> 1]
Datasets == {[content |-> ds, fail |-> f] : f \in 0..(Len(ds) + 1)}

DataInsert(q) ==
    /\ Len(ds) < MaxQuads \/ q \in Range(ds)
    /\ ds' = insert(ds, q).content
    /\ UNCHANGED <<overflow_checks, panicked, dictVars, graphVars, widthVars, sourceVars>>

DataRemove(q) ==
    /\ ds' = remove(ds, q).content
    /\ UNCHANGED <<overflow_checks, panicked, dictVars, graphVars, widthVars, sourceVars>>

NextData ==
    \/ \E q \in Quads : DataInsert(q)
    \/ \E q \in Quads : DataRemove(q)

SpecData == InitData /\ [][NextData]_vars

(***************************************************************************)
(* Claims about the graph, checked under Spec.                             *)
(***************************************************************************)
\* the number of (stored triple, position) occurrences of index i
Occurrences(tr, i) == Cardinality({x \in tr \X (1..3) : x[1][x[2]] = i})
\* the term triple <<s, p, o>> as triples() yields it
Yield(s, p, o) == <<Some(s), Some(p), Some(o)>>

\* C1: refcount conservation.  After any sequence of insert_indexed and
\* remove_indexed calls, the refcount i2c[i] of every live index i is the number
\* of (stored triple, position) occurrences of i in the triple set.
C1_RefcountConservation ==
    ~panicked =>
        \A i \in Live(terms) : terms.i2c[i + 1] = Occurrences(triples, i)

\* after a duplicate insert or the removal of an absent triple: a stored triple
\* repeats one term, two slots are live and their refcounts differ
C1_Witness ==
    /\ glast.op \in {"insert", "remove"} /\ ~glast.some
    /\ \E key \in triples : key[1] = key[2] \/ key[2] = key[3] \/ key[1] = key[3]
    /\ \E i, j \in Live(terms) : terms.i2c[i + 1] > terms.i2c[j + 1]
    /\ len(triples) = MaxTriples

\* C2: set semantics.  insert_indexed returns Some iff the triple was absent, and
\* then the size grows by exactly 1; it returns None iff the triple was present,
\* and then the size is unchanged.  remove_indexed returns Some iff the triple
\* was present, and then the size shrinks by exactly 1; otherwise it returns None
\* and the size is unchanged.
C2_SetSemantics ==
    ~panicked =>
        \A s, p, o \in Terms :
            LET present == <<s, p, o>> \in stored
                ins == insert_indexed(terms, triples, s, p, o)
                rem == remove_indexed(terms, triples, s, p, o)
            IN  /\ ~ins.panic /\ ~rem.panic
                /\ present <=> Yield(s, p, o) \in Yielded(terms, triples)
                /\ ins.ret # None <=> ~present
                /\ ins.ret # None => len(ins.triples) = len(triples) + 1
                /\ ins.ret = None => len(ins.triples) = len(triples)
                /\ rem.ret # None <=> present
                /\ rem.ret # None => len(rem.triples) = len(triples) - 1
                /\ rem.ret = None => len(rem.triples) = len(triples)

\* an insert has just returned None on a store that holds two triples
C2_Witness ==
    /\ glast.op = "insert" /\ ~glast.some
    /\ len(triples) = 2 /\ Cardinality(stored) = 2

\* C3: a set-flavoured store never stores or yields the same tuple twice.  No two
\* stored index triples resolve through get_term to equal term triples, every
\* position of a stored triple resolves, and what triples() yields is exactly the
\* triples inserted and not removed since, each once.
C3_NoDuplicate ==
    ~panicked =>
        /\ \A k1, k2 \in triples : Resolve(terms, k1) = Resolve(terms, k2) => k1 = k2
        /\ \A key \in triples : \A n \in 1..3 : get_term(terms, key[n]) # None
        /\ Yielded(terms, triples) = {Yield(t[1], t[2], t[3]) : t \in stored}
        /\ len(triples) = Cardinality(stored)

\* two stored triples that share terms, after a duplicate insert was refused
C3_Witness ==
    /\ glast.op = "insert" /\ ~glast.some
    /\ len(triples) = 2
    /\ \E k1, k2 \in triples : k1 # k2 /\ k1[1] = k2[1]

\* C7: optimistic insert then rollback.  insert_indexed of a triple already in
\* the set returns None and leaves the dictionary as it was: every refcount,
\* every slot's term, the reverse map, next_free and the slot count.  The three
\* make_index calls allocate no slot and the three dec_ref calls free none.
C7_InsertRollback ==
    ~panicked =>
        \A s, p, o \in Terms :
            <<s, p, o>> \in stored =>
                LET m == make_index_each(terms, s, p, o)
                    r == insert_indexed(terms, triples, s, p, o)
                IN  /\ ~r.panic
                    /\ r.ret = None
                    /\ r.terms = terms
                    /\ r.triples = triples
                    /\ LET u1 == dec_ref(m.ti, m.ret[1])
                           u2 == dec_ref(u1.ti, m.ret[2])
                       IN  \A d \in {m.ti, u1.ti, u2.ti} :
                               /\ d.i2t = terms.i2t
                               /\ d.t2i = terms.t2i
                               /\ d.next_free = terms.next_free

\* a duplicate insert has just been rolled back on a dictionary with a freed slot
C7_Witness ==
    /\ glast.op = "insert" /\ ~glast.some /\ glast.live3
    /\ Free(terms) # {}
    /\ triples # {}

\* C8: remove_indexed of an absent triple changes nothing.  If one of s, p, o is
\* not live, or all three are live but the index triple is not in the set, it
\* returns None and leaves the triple set and the dictionary (refcounts, reverse
\* map, free list) unchanged.
C8_RemoveAbsent ==
    ~panicked =>
        \A s, p, o \in Terms :
            <<s, p, o>> \notin stored =>
                LET r == remove_indexed(terms, triples, s, p, o)
                IN  /\ ~r.panic
                    /\ r.ret = None
                    /\ r.terms = terms
                    /\ r.triples = triples

\* a remove of an absent triple whose three terms were all live has just returned None
C8_Witness ==
    /\ glast.op = "remove" /\ ~glast.some /\ glast.live3
    /\ triples # {}

\* a remove of a triple with a term that was not live has just returned None
C8_WitnessNotLive ==
    /\ glast.op = "remove" /\ ~glast.some /\ ~glast.live3
    /\ triples # {}


(***************************************************************************)
(* Claims about the dictionary, checked under SpecDict.                    *)
(***************************************************************************)
\* number of live terms, counted in the slots and in the reverse map
LiveCount(d) == Cardinality(Live(d))
KeyCount(d) == Cardinality(DOMAIN d.t2i)
\* the indices a lookup can name: every slot, one past the last, every value of t2i
Indices(d) == 0..Len(d.i2t) \cup {d.t2i[t] : t \in DOMAIN d.t2i}

\* C4: interning dedup.  make_index(t) twice in a row on a dictionary where t is
\* not live returns the same index both times and leaves its refcount at 2; the
\* second call changes neither the number of slots nor the number of live terms.
C4_InterningDedup ==
    ~panicked =>
        \A t \in DictTerms :
            get_index(ti, t) = None =>
                LET r1 == make_index(ti, t)
                    r2 == make_index(r1.ti, t)
                IN  /\ ~r1.panic /\ ~r2.panic
                    /\ r2.ret = r1.ret
                    /\ r2.ti.i2c[r2.ret + 1] = 2
                    /\ Len(r2.ti.i2t) = Len(r1.ti.i2t)
                    /\ Len(r2.ti.i2c) = Len(r1.ti.i2c)
                    /\ LiveCount(r2.ti) = LiveCount(r1.ti)
                    /\ KeyCount(r2.ti) = KeyCount(r1.ti)

\* the last two calls were make_index(t), the first on a dictionary where t was not live
C4_Witness ==
    /\ tlast.op = "make_index" /\ tlast.again
    /\ ti.i2c[get_index(ti, tlast.arg)[1] + 1] = 2
    /\ Free(ti) # {}

\* C5: interning is a bijection between live indices and distinct term values.
\* get_index(t) = Some(i) iff slot i is live and holds t; t2i has exactly one
\* entry per live slot and none for a free slot; no two live slots hold equal terms.
C5_InterningBijection ==
    ~panicked =>
        /\ \A t \in DictTerms : \A i \in Indices(ti) :
               get_index(ti, t) = Some(i) <=> get_term(ti, i) = Some(t)
        /\ KeyCount(ti) = LiveCount(ti)
        /\ \A t \in DOMAIN ti.t2i : ti.t2i[t] \in Live(ti)
        /\ \A i, j \in Live(ti) : ti.i2t[i + 1] = ti.i2t[j + 1] => i = j

\* two live terms and a freed slot, right after a dec_ref that freed it
C5_Witness ==
    /\ tlast.op = "dec_ref" /\ tlast.freed
    /\ LiveCount(ti) >= 2
    /\ \E i \in Live(ti) : ti.i2c[i + 1] >= 2

\* what make_index(u) does to a dictionary whose free-list head i last held a
\* term other than u: u is not live and a freed slot exists
ReuseCase(d, u) ==
    /\ get_index(d, u) = None
    /\ d.next_free \in Free(d)
    /\ was[d.next_free + 1] # Some(u)

\* C6 as claimed: once u is interned into the freed slot i, get_term(i) is u,
\* get_index(u) = Some(i) with refcount 1, and get_index(old term) is None.
C6_AsClaimed ==
    ~panicked =>
        \A u \in DictTerms :
            ReuseCase(ti, u) =>
                LET i == ti.next_free
                    old == was[i + 1][1]
                    r == make_index(ti, u)
                IN  /\ r.ret = i
                    /\ get_term(r.ti, i) = Some(u)
                    /\ get_index(r.ti, u) = Some(i)
                    /\ r.ti.i2c[i + 1] = 1
                    /\ get_index(r.ti, old) = None

\* C6 (amended): slot reuse correctness.  Once u is interned into the freed slot
\* i, get_term(i) is u and not the old term, get_index(u) = Some(i) with refcount
\* 1, and get_index(old term) is not Some(i): it is None unless the old term has
\* been interned again since, and then it is the index of another slot.
C6_SlotReuse ==
    ~panicked =>
        \A u \in DictTerms :
            ReuseCase(ti, u) =>
                LET i == ti.next_free
                    old == was[i + 1][1]
                    r == make_index(ti, u)
                IN  /\ ~r.panic
                    /\ r.ret = i
                    /\ get_term(r.ti, i) = Some(u)
                    /\ get_term(r.ti, i) # Some(old)
                    /\ get_index(r.ti, u) = Some(i)
                    /\ r.ti.i2c[i + 1] = 1
                    /\ get_index(r.ti, old) # Some(i)
                    /\ get_index(r.ti, old) = get_index(ti, old)
                    /\ get_index(r.ti, old) # None =>
                           get_term(r.ti, get_index(r.ti, old)[1]) = Some(old)

\* a term has just been interned into a slot that another term had freed
C6_Witness ==
    /\ tlast.op = "make_index" /\ tlast.reused
    /\ get_index(ti, tlast.arg) # None
    /\ ti.i2c[get_index(ti, tlast.arg)[1] + 1] = 1
    /\ get_term(ti, get_index(ti, tlast.arg)[1]) = Some(tlast.arg)

\* C11: dec_ref at the last reference frees the slot.  In every reachable
\* state, for every live index i whose refcount is 1, dec_ref(i) returns
\* without panic and afterwards get_index of the term that was at i is None,
\* get_term(i) is None, the count field of slot i holds the next_free of before
\* the call, and next_free is i; with no other reference held, the caller's
\* count of references to i is 1 as well.
C11_LastDecRefFrees ==
    \A i \in DOMAIN held :
        held[i].refs = 1 =>
            /\ i \in Live(ti) /\ ti.i2c[i + 1] = 1
            /\ LET r == dec_ref(ti, i)
                   t == ti.i2t[i + 1][1]
               IN  /\ ~r.panic
                   /\ get_index(r.ti, t) = None
                   /\ get_term(r.ti, i) = None
                   /\ r.ti.i2c[i + 1] = ti.next_free
                   /\ r.ti.next_free = i

\* The last call was a dec_ref that freed a slot which now heads the free list
\* and links to another free slot.
C11_Witness ==
    /\ tlast.op = "dec_ref" /\ tlast.freed
    /\ ti.next_free \in Free(ti)
    /\ ti.i2c[ti.next_free + 1] \in Free(ti)
    /\ fstack # <<>> /\ fstack[1] = ti.next_free

\* The sequences of m distinct terms of S.
InjSeqs(S, m) == {q \in [1..m -> S] : \A a, b \in 1..m : a # b => q[a] # q[b]}

\* make_index called for the terms of ts in order: the indices returned and
\* the dictionary left.
RECURSIVE InternEach(_, _)
InternEach(d, ts) ==
    IF ts = <<>> THEN [ti |-> d, rets |-> <<>>, panic |-> FALSE]
    ELSE LET r == make_index(d, ts[1])
         IN  IF r.panic THEN [ti |-> r.ti, rets |-> <<>>, panic |-> TRUE]
             ELSE LET rest == InternEach(r.ti, Tail(ts))
                  IN  [ti |-> rest.ti, rets |-> <<r.ret>> \o rest.rets,
                       panic |-> rest.panic]

\* The terms the caller holds no reference to: interning one of them is the
\* interning of a new term.
NewTerms == DictTerms \ HeldTerms

\* C12: freed slots are reused last-freed-first.  In every reachable state,
\* with i1..ik the indices released to 0 and not reused, in the order of their
\* release (fstack holds them latest first), interning new distinct terms one
\* after the other returns ik, ..., i1 in that order without changing the slot
\* count, and each interning after the k-th appends a fresh slot; this holds
\* whichever new terms are interned, a term released before included.
C12_LifoReuse ==
    LET k == Len(fstack)
        m == IF Cardinality(NewTerms) < k + 1 THEN Cardinality(NewTerms) ELSE k + 1
    IN  \A ts \in InjSeqs(NewTerms, m) :
            LET r == InternEach(ti, ts)
            IN  /\ ~r.panic
                /\ Len(r.rets) = m
                /\ \A j \in 1..m :
                       r.rets[j] = IF j <= k THEN fstack[j] ELSE Len(ti.i2t)
                /\ Len(r.ti.i2t) = Len(ti.i2t) + (IF m > k THEN 1 ELSE 0)

\* Two slots were released one after the other, the lower one last, and three
\* terms are new: the next three internings take the two slots and append one.
C12_Witness ==
    /\ tlast.op = "dec_ref" /\ tlast.freed
    /\ Len(fstack) = 2 /\ fstack[1] < fstack[2]
    /\ Cardinality(NewTerms) = 3

\* A term released to 0 was interned again and lives at another index than the
\* slot it was released from, which is still free.
C12_WitnessMoved ==
    \E i \in DOMAIN held : \E j \in Free(ti) :
        /\ j # i /\ was[j + 1] = Some(held[i].term)
        /\ tlast.op = "make_index" /\ tlast.arg = held[i].term

\* The indices released to 0 and not handed out again.
Released == {fstack[j] : j \in 1..Len(fstack)}

\* C13: get_term is partial.  In every reachable state the slots are exactly
\* the indices the caller holds and the released ones; get_term(i) is the term
\* index i was handed out for exactly when a reference to i is held (the slot
\* is live), and None for every released (free) slot and for every index at or
\* beyond the slot count.
C13_GetTermPartial ==
    /\ Slots(ti) = DOMAIN held \cup Released
    /\ Live(ti) = DOMAIN held
    /\ \A i \in 0..(Len(ti.i2t) + 1) :
           /\ i \in DOMAIN held => get_term(ti, i) = Some(held[i].term)
           /\ i \in Released => get_term(ti, i) = None
           /\ i >= Len(ti.i2t) => get_term(ti, i) = None
           /\ get_term(ti, i) # None <=> i \in Live(ti)

\* A free slot lies between two live ones.
C13_Witness ==
    \E i, j, k \in Slots(ti) :
        /\ i < j /\ j < k
        /\ i \in DOMAIN held /\ k \in DOMAIN held /\ j \in Released
        /\ get_term(ti, j) = None /\ get_term(ti, k) # None

\* Every index the caller holds resolves to its term and back.
HeldResolve ==
    \A i \in DOMAIN held :
        /\ get_term(ti, i) = Some(held[i].term)
        /\ get_index(ti, held[i].term) = Some(i)

\* One step keeps every index that stays held on its term, hands out a new
\* index only from the head of the free list (a released slot, or the slot
\* count when none is released), and never replaces the term of a slot that
\* stays live.
StableStep ==
    /\ \A i \in DOMAIN held \cap DOMAIN held' :
           /\ held'[i].term = held[i].term
           /\ get_term(ti', i) = get_term(ti, i)
           /\ get_index(ti', held[i].term) = Some(i)
    /\ \A i \in DOMAIN held' \ DOMAIN held :
           /\ i = ti.next_free
           /\ i \in Released \/ (Released = {} /\ i = Len(ti.i2t))
           /\ get_term(ti, i) = None
    /\ \A i \in Slots(ti) :
           get_term(ti, i) # None /\ get_term(ti', i) # None
               => get_term(ti', i) = get_term(ti, i)

\* C14: index stability.  From the step that assigns index i to term t until
\* the step that gives back its last reference, get_term(i) = t and
\* get_index(t) = Some(i) in every state, and index i is assigned to another
\* term only after it was freed and taken from the free list.
C14_IndexStability == []HeldResolve /\ [][StableStep]_vars

\* A slot freed by one term was taken by another while a third index has been
\* held, with more than one reference, all along.
C14_Witness ==
    /\ tlast.op = "make_index" /\ tlast.reused
    /\ \E i \in DOMAIN held :
           /\ held[i].refs >= 2
           /\ held[i].term # tlast.arg
           /\ get_index(ti, held[i].term) = Some(i)

\* make_index of a term that is not live appends a slot exactly when no slot
\* is free.
GrowsWhenNeeded ==
    \A t \in DictTerms :
        get_index(ti, t) = None =>
            LET r == make_index(ti, t)
                n == Len(ti.i2t)
            IN  /\ ~r.panic
                /\ Len(r.ti.i2c) = Len(r.ti.i2t)
                /\ IF Free(ti) = {}
                   THEN /\ r.ret = n
                        /\ Len(r.ti.i2t) = n + 1
                        /\ r.ti.next_free = n + 1
                   ELSE /\ r.ret = ti.next_free
                        /\ r.ret \in Free(ti)
                        /\ Len(r.ti.i2t) = n

\* No step shortens the slot array.
NeverShrinks == Len(ti'.i2t) >= Len(ti.i2t) /\ Len(ti'.i2c) >= Len(ti.i2c)

\* C15: the slot array only grows, and only when needed.  No operation reduces
\* the slot count; make_index of a term that is not live appends a slot
\* (returning the previous slot count, next_free becoming the new slot count)
\* only when no slot is free, and otherwise returns the head of the free list
\* and leaves the slot count unchanged.
C15_GrowOnlyWhenNeeded == []GrowsWhenNeeded /\ [][NeverShrinks]_vars

\* The last call interned a new term into a free slot although slots are still
\* free after it: the slot count stayed below what appending would have made.
C15_Witness ==
    /\ tlast.op = "make_index" /\ tlast.fresh
    /\ Free(ti) # {}
    /\ ti.next_free \in Free(ti)
    /\ Len(ti.i2t) = NDictTerms

\* Dictionary e differs from dictionary d in the count field of slot i only,
\* which is c.
OnlyCount(d, e, i, c) ==
    /\ e.i2t = d.i2t
    /\ e.t2i = d.t2i
    /\ e.next_free = d.next_free
    /\ Len(e.i2c) = Len(d.i2c)
    /\ \A j \in Slots(d) : e.i2c[j + 1] = IF j = i THEN c ELSE d.i2c[j + 1]

\* C16: frame of inc_ref and of a dec_ref that is not the last.  In every
\* reachable state, for every live index i, inc_ref(i) changes nothing but the
\* refcount of i, which it raises by one, and when the refcount of i is above
\* 1, dec_ref(i) changes nothing but the refcount of i, which it lowers by
\* one: the term at i, the reverse map, next_free, the slot count and every
\* other slot are as before.
C16_RefcountFrame ==
    \A i \in DOMAIN held :
        /\ ti.i2c[i + 1] = held[i].refs
        /\ LET r == inc_ref(ti, i)
           IN  ~r.panic /\ OnlyCount(ti, r.ti, i, held[i].refs + 1)
        /\ held[i].refs > 1 =>
               LET r == dec_ref(ti, i)
               IN  ~r.panic /\ OnlyCount(ti, r.ti, i, held[i].refs - 1)

\* The last call was a dec_ref that left its slot live, next to another live
\* slot and a free one.
C16_Witness ==
    /\ tlast.op = "dec_ref" /\ ~tlast.freed
    /\ Free(ti) # {}
    /\ Cardinality(DOMAIN held) >= 2
    /\ \E i \in DOMAIN held : held[i].refs = MaxRef - 1

\* The free list: the values met from head i on, following the count field of
\* each slot, up to the first value that is no slot, or n slots at most.
RECURSIVE FreeList(_, _, _)
FreeList(d, i, n) ==
    IF i >= Len(d.i2c) \/ n = 0 THEN <<i>>
    ELSE <<i>> \o FreeList(d, d.i2c[i + 1], n - 1)

\* C35: the free list is well formed.  In every reachable dictionary state
\* i2c and i2t have the same length; following the links from next_free
\* through the count field of each free slot visits every free slot exactly
\* once, visits no live slot, and ends at the value equal to the slot count;
\* when no slot is free, next_free is the slot count.
C35_FreeListWellFormed ==
    LET list == FreeList(ti, ti.next_free, Len(ti.i2t) + 1)
        visited == SubSeq(list, 1, Len(list) - 1)
    IN  /\ Len(ti.i2c) = Len(ti.i2t)
        /\ list[Len(list)] = Len(ti.i2t)
        /\ \A k \in 1..Len(visited) : visited[k] \notin Live(ti)
        /\ \A i \in Free(ti) :
               Cardinality({k \in 1..Len(visited) : visited[k] = i}) = 1
        /\ Len(visited) = Cardinality(Free(ti))
        /\ Free(ti) = {} => ti.next_free = Len(ti.i2t)

\* Two slots are free, a live slot lies between them, and the head of the list
\* is the higher of the two: the list goes from slot 2 to slot 0 and ends at
\* the slot count.
C35_Witness ==
    /\ Len(ti.i2t) = 3
    /\ Free(ti) = {0, 2} /\ Live(ti) = {1}
    /\ FreeList(ti, ti.next_free, 4) = <<2, 0, 3>>

(***************************************************************************)
(* Claims about the graph and its dictionary, checked under Spec.          *)
(***************************************************************************)
\* C17: shrink_to_fit preserves index validity.  In every reachable graph
\* state, shrink_to_fit on the graph, and on its dictionary alone, returns
\* without panic and leaves every index resolving to the same term (None for
\* the free ones), every count field (refcount or free-list link), the slot
\* count, next_free, the answers of get_index, the stored index triples and
\* the triples yielded as they were.
C17_ShrinkKeepsIndices ==
    LET g == HashGraph_shrink_to_fit(terms, triples)
        r == shrink_to_fit(terms)
    IN  /\ ~g.panic /\ ~r.panic
        /\ \A d \in {g.terms, r.ti} :
               /\ Len(d.i2t) = Len(terms.i2t) /\ Len(d.i2c) = Len(terms.i2c)
               /\ \A i \in Slots(terms) :
                      /\ get_term(d, i) = get_term(terms, i)
                      /\ d.i2c[i + 1] = terms.i2c[i + 1]
               /\ \A t \in Terms : get_index(d, t) = get_index(terms, t)
               /\ DOMAIN d.t2i = DOMAIN terms.t2i
               /\ d.next_free = terms.next_free
        /\ g.triples = triples
        /\ Yielded(g.terms, g.triples) = Yielded(terms, triples)

\* shrink_to_fit was called on a graph that stores a triple and whose last
\* slot is free.
C17_Witness ==
    /\ glast.op = "shrink_to_fit"
    /\ triples # {}
    /\ Len(terms.i2t) - 1 \in Free(terms)
    /\ terms.next_free = Len(terms.i2t) - 1

\* The terms of a triple, and the terms occurring in the triples inserted and
\* not removed since.
TermsOf(t) == {t[1], t[2], t[3]}
StoredTerms == UNION {TermsOf(t) : t \in stored}

\* C18: the dictionary's population is derived from the store's content.  In
\* every reachable graph state a term has an index exactly when it occurs in
\* some position of some stored triple, a slot is live exactly when its index
\* occurs in some stored index triple and its term is such a term, and when
\* no triple is stored no slot is live and the reverse map is empty.
C18_PopulationFromStore ==
    /\ \A t \in Terms : get_index(terms, t) # None <=> t \in StoredTerms
    /\ \A i \in Slots(terms) :
           /\ i \in Live(terms) <=> \E key \in triples : i \in TermsOf(key)
           /\ i \in Live(terms) => terms.i2t[i + 1][1] \in StoredTerms
    /\ Yielded(terms, triples) = {Yield(t[1], t[2], t[3]) : t \in stored}
    /\ triples = {} => Live(terms) = {} /\ DOMAIN terms.t2i = {}

\* A removal left one term stored and dropped the last occurrence of another.
C18_Witness ==
    /\ glast.op = "remove" /\ glast.some
    /\ triples # {}
    /\ Free(terms) # {}
    /\ \E t \in Terms : t \notin StoredTerms /\ get_index(terms, t) = None

\* A removal emptied a store that had every term live.
C18_WitnessEmptied ==
    /\ glast.op = "remove" /\ glast.some
    /\ triples = {} /\ stored = {}
    /\ Free(terms) = Slots(terms) /\ Len(terms.i2t) = NTerms

\* The precondition of dec_ref: the index is live and its refcount is at
\* least 1.
InPrecondition(call) ==
    /\ call.i \in Live(call.ti)
    /\ call.ti.i2c[call.i + 1] >= 1

\* C34: the graph never breaks the dictionary's preconditions.  In every
\* state reached by insert_indexed and remove_indexed calls no call has
\* panicked, and whatever call comes next: each of the three dec_ref calls
\* that insert_indexed issues for a triple already stored, and each of the
\* three that remove_indexed issues for a stored triple, targets an index that
\* is live with a refcount of at least 1 in the dictionary as the calls before
\* it left it (no refcount underflow, no take().unwrap() on an empty slot), and
\* the call does not panic; every get_term(..).unwrap() of triples() is applied
\* to a live index.
C34_DictionaryPreconditions ==
    /\ ~panicked
    /\ \A s, p, o \in Terms :
           /\ LET m == make_index_each(terms, s, p, o)
              IN  /\ ~m.panic
                  /\ ~HashSet_insert(triples, m.ret).modified =>
                         \A k \in 1..3 : InPrecondition(DecRefCalls(m.ti, m.ret)[k])
           /\ LET si == get_index(terms, s)
                  pi == get_index(terms, p)
                  oi == get_index(terms, o)
                  key == <<si[1], pi[1], oi[1]>>
              IN  (/\ si # None /\ pi # None /\ oi # None
                   /\ HashSet_remove(triples, key).modified) =>
                      \A k \in 1..3 : InPrecondition(DecRefCalls(terms, key)[k])
           /\ ~insert_indexed(terms, triples, s, p, o).panic
           /\ ~remove_indexed(terms, triples, s, p, o).panic
    /\ \A key \in triples : \A k \in 1..3 :
           /\ key[k] \in Live(terms)
           /\ get_term(terms, key[k]) # None

\* A triple of one term three times was inserted a second time, after the
\* removal of another triple had freed a slot: the three dec_ref calls of the
\* duplicate insert targeted the same index and left its refcount at 3.
C34_Witness ==
    /\ glast.op = "insert" /\ ~glast.some
    /\ Free(terms) # {}
    /\ \E key \in triples :
           /\ key[1] = key[2] /\ key[2] = key[3]
           /\ terms.i2c[key[1] + 1] = 3

\* insert_indexed(s, p, o), then remove_indexed(s, p, o) on the graph it left
RoundTrip(d, tr, s, p, o) ==
    LET a == insert_indexed(d, tr, s, p, o)
        b == remove_indexed(a.terms, a.triples, s, p, o)
    IN  [inserted |-> a, removed |-> b]
\* the refcount of a live term
RefCount(d, t) == d.i2c[d.t2i[t] + 1]

\* C37: insert/remove round trip.  In every reachable graph state, for every
\* triple that is absent: insert_indexed returns Some, remove_indexed of the
\* same triple returns the same indices, neither panics, and afterwards the
\* stored index triples and the term triples yielded, the set of live terms,
\* the index, the slot and the refcount of every term that was live before
\* are as they were before the insert; no slot was dropped.
C37_InsertRemoveRoundTrip ==
    \A s, p, o \in Terms :
        Yield(s, p, o) \notin Yielded(terms, triples) =>
            LET r == RoundTrip(terms, triples, s, p, o)
                b == r.removed
            IN  /\ ~r.inserted.panic /\ ~b.panic
                /\ r.inserted.ret # None /\ b.ret = r.inserted.ret
                /\ Yield(s, p, o) \in Yielded(r.inserted.terms, r.inserted.triples)
                /\ b.triples = triples
                /\ Yielded(b.terms, b.triples) = Yielded(terms, triples)
                /\ DOMAIN b.terms.t2i = DOMAIN terms.t2i
                /\ Live(b.terms) = Live(terms)
                /\ \A t \in DOMAIN terms.t2i :
                       /\ b.terms.t2i[t] = terms.t2i[t]
                       /\ get_term(b.terms, terms.t2i[t]) = Some(t)
                       /\ RefCount(b.terms, t) = RefCount(terms, t)
                /\ Len(b.terms.i2t) >= Len(terms.i2t)

\* One term is live in the only slot; the round trip of an absent triple with
\* that term and a new one leaves the term's refcount and the stored triple
\* as they were, and one slot more, which is free.
C37_Witness ==
    /\ len(triples) = 1 /\ Len(terms.i2t) = 1 /\ Live(terms) = {0}
    /\ \E s, p, o \in Terms :
           /\ Yield(s, p, o) \notin Yielded(terms, triples)
           /\ get_index(terms, s) # None /\ get_index(terms, o) = None
           /\ LET b == RoundTrip(terms, triples, s, p, o).removed
              IN  /\ Len(b.terms.i2t) = 2 /\ Free(b.terms) = {1}
                  /\ b.terms.next_free = 1 /\ terms.next_free = 1
                  /\ b.terms # terms
                  /\ RefCount(b.terms, s) = 3
                  /\ b.triples = triples

(***************************************************************************)
(* Claims about the dataset methods, checked under SpecData.               *)
(***************************************************************************)
\* The matchers tried at one position: for every value the matcher whose
\* constant() is that value and which accepts it alone, and for every set of
\* values a matcher without constant that accepts that set (the whole set is
\* ANY, the others are arrays or closures).
Matchers(values) ==
    {[constant |-> Some(v), accepts |-> {v}] : v \in values}
        \cup {[constant |-> None, accepts |-> a] : a \in SUBSET values}
TermMatchers == Matchers(QTerms)
GraphNameMatchers == Matchers(GraphName)

\* The quads among the items a scan yields, in order.
RECURSIVE OkQuads(_)
OkQuads(src) ==
    IF src = <<>> THEN <<>>
    ELSE (IF src[1].ok THEN <<src[1].quad>> ELSE <<>>) \o OkQuads(Tail(src))

\* C19: dispatch equivalence.  In every reachable dataset state, whether the
\* dataset never fails or its visit starts with an error, for every four
\* matchers (each with or without a constant, which covers the 16
\* combinations), the quads that quads_matching yields are, in the same order,
\* the quads of quads() that all four matchers accept; a matcher whose
\* constant() is Some(t) accepts t and nothing else.
C19_DispatchEquivalence ==
    \A ms, mp, mo \in TermMatchers : \A mg \in GraphNameMatchers :
        \A d \in {dataset, failing} :
            OkQuads(quads_matching(d, ms, mp, mo, mg))
                = SelectSeq(OkQuads(quads(d)),
                            LAMBDA q : /\ matches(ms, q[1]) /\ matches(mp, q[2])
                                       /\ matches(mo, q[3]) /\ matches(mg, q[4]))

\* The dataset holds two quads with the same subject and different objects, of
\* which quads_matching with a constant subject and a constant object (and ANY
\* for predicate and graph name) yields one.
C19_Witness ==
    /\ Len(ds) = MaxQuads
    /\ \E s, o \in QTerms :
           /\ \A k \in 1..Len(ds) : ds[k][1] = s
           /\ Len(OkQuads(quads_matching(dataset,
                     [constant |-> Some(s), accepts |-> {s}],
                     [constant |-> None, accepts |-> QTerms],
                     [constant |-> Some(o), accepts |-> {o}],
                     [constant |-> None, accepts |-> GraphName]))) = 1

\* C20 as claimed: for every dataset and every quad, contains returns Ok(true)
\* exactly when quads_with_spog yields at least one quad, which for a dataset
\* that never fails is exactly when the quad is in the dataset, and Ok(false)
\* when the scan is empty.
C20_AsClaimed ==
    \A d \in Datasets : \A q \in Quads :
        LET src == quads_with_spog(d, q[1], q[2], q[3], q[4])
            r == contains(d, q[1], q[2], q[3], q[4])
        IN  /\ r = ResultOk(TRUE) <=> OkQuads(src) # <<>>
            /\ d.fail = 0 => (OkQuads(src) # <<>> <=> q \in Range(d.content))
            /\ src = <<>> => r = ResultOk(FALSE)

\* C20: contains.  For every dataset and every quad, contains returns Ok(true)
\* exactly when the visit of the dataset reaches the quad before any error,
\* Ok(false) exactly when the visit ends without error and without the quad,
\* and the error otherwise; so for a dataset that never fails it returns
\* Ok(true) when the quad is in the dataset and Ok(false) when it is not.
C20_Contains ==
    \A d \in Datasets : \A q \in Quads :
        LET all == quads(d)
            r == contains(d, q[1], q[2], q[3], q[4])
            reached == \E k \in 1..Len(all) :
                           all[k] = ItemOk(q) /\ \A j \in 1..(k - 1) : all[j].ok
            clean == \A j \in 1..Len(all) : all[j].ok
        IN  /\ r = ResultOk(TRUE) <=> reached
            /\ r = ResultOk(FALSE) <=> clean /\ q \notin Range(d.content)
            /\ r = ResultErr <=> ~reached /\ ~clean
            /\ d.fail = 0 => r = ResultOk(q \in Range(d.content))

\* The dataset holds two quads that differ in the graph name only.  Failing
\* between them, contains finds the first and reports the error for the
\* second; never failing, it finds both and not the same triple in a third
\* graph.
C20_Witness ==
    /\ Len(ds) = 2
    /\ ds[1][1] = ds[2][1] /\ ds[1][2] = ds[2][2] /\ ds[1][3] = ds[2][3]
    /\ LET d == [content |-> ds, fail |-> 2]
       IN  /\ contains(d, ds[1][1], ds[1][2], ds[1][3], ds[1][4]) = ResultOk(TRUE)
           /\ contains(d, ds[2][1], ds[2][2], ds[2][3], ds[2][4]) = ResultErr
    /\ contains(dataset, ds[2][1], ds[2][2], ds[2][3], ds[2][4]) = ResultOk(TRUE)
    /\ \E g \in GraphName :
           contains(dataset, ds[1][1], ds[1][2], ds[1][3], g) = ResultOk(FALSE)

\* The matcher made of one term or graph name, and the matchers ANY.
Exactly(v) == [constant |-> Some(v), accepts |-> {v}]
AnyTerm == [constant |-> None, accepts |-> QTerms]
AnyGraph == [constant |-> None, accepts |-> GraphName]

\* The positions of a quad, and the quads_with_ method for a set X of them,
\* called with the values quad c has at these positions.
Positions == {1, 2, 3, 4}
ScanWith(d, X, c) ==
    CASE X = {1} -> quads_with_s(d, c[1])
      [] X = {2} -> quads_with_p(d, c[2])
      [] X = {3} -> quads_with_o(d, c[3])
      [] X = {4} -> quads_with_g(d, c[4])
      [] X = {1, 2} -> quads_with_sp(d, c[1], c[2])
      [] X = {1, 3} -> quads_with_so(d, c[1], c[3])
      [] X = {1, 4} -> quads_with_sg(d, c[1], c[4])
      [] X = {2, 3} -> quads_with_po(d, c[2], c[3])
      [] X = {2, 4} -> quads_with_pg(d, c[2], c[4])
      [] X = {3, 4} -> quads_with_og(d, c[3], c[4])
      [] X = {1, 2, 3} -> quads_with_spo(d, c[1], c[2], c[3])
      [] X = {1, 2, 4} -> quads_with_spg(d, c[1], c[2], c[4])
      [] X = {1, 3, 4} -> quads_with_sog(d, c[1], c[3], c[4])
      [] X = {2, 3, 4} -> quads_with_pog(d, c[2], c[3], c[4])
      [] X = {1, 2, 3, 4} -> quads_with_spog(d, c[1], c[2], c[3], c[4])

\* C21: the bound scans.  In every reachable dataset state, whether the
\* dataset never fails or its visit starts with an error, for each of the 15
\* non-empty sets X of positions and all constants, quads_with_X yields, in
\* order, exactly the quads of quads() that have the constants at the
\* positions of X, and the same quads as quads_matching with the constants at
\* X and ANY elsewhere.
C21_BoundScans ==
    \A d \in {dataset, failing} : \A c \in Quads :
        \A X \in (SUBSET Positions) \ {{}} :
            LET got == OkQuads(ScanWith(d, X, c))
            IN  /\ got = SelectSeq(OkQuads(quads(d)),
                                   LAMBDA q : \A x \in X : q[x] = c[x])
                /\ got = OkQuads(quads_matching(d,
                             IF 1 \in X THEN Exactly(c[1]) ELSE AnyTerm,
                             IF 2 \in X THEN Exactly(c[2]) ELSE AnyTerm,
                             IF 3 \in X THEN Exactly(c[3]) ELSE AnyTerm,
                             IF 4 \in X THEN Exactly(c[4]) ELSE AnyGraph))

\* The dataset holds two quads with the same object in different graphs: the
\* scan by object yields both, the scan by object and graph name one.
C21_Witness ==
    /\ Len(ds) = 2
    /\ ds[1][3] = ds[2][3] /\ ds[1][4] # ds[2][4]
    /\ Len(OkQuads(quads_with_o(dataset, ds[1][3]))) = 2
    /\ OkQuads(quads_with_og(dataset, ds[1][3], ds[1][4])) = <<ds[1]>>

\* C22: graph names are compared as Options.  In every reachable dataset
\* state, every scan bound to a graph name (the 8 quads_with_ methods that take
\* one) yields quads of that graph only: bound to the default graph (None) only
\* quads whose graph name is None, bound to Some(g) only quads whose graph name
\* is Some(g), and all of them that have the other constants; the default
\* graph matches no named graph and two different names do not match.
C22_OptionAwareGraphNames ==
    /\ \A d \in {dataset, failing} : \A c \in Quads :
           \A X \in {Y \in SUBSET Positions : 4 \in Y} :
               LET got == OkQuads(ScanWith(d, X, c))
               IN  /\ \A k \in 1..Len(got) :
                          /\ c[4] = None => got[k][4] = None
                          /\ c[4] # None => got[k][4] # None /\ got[k][4][1] = c[4][1]
                   /\ \A q \in Range(d.content) :
                          (\A x \in X \ {4} : q[x] = c[x]) =>
                              (q \in Range(got) <=>
                                   (IF c[4] = None THEN q[4] = None
                                    ELSE q[4] # None /\ q[4][1] = c[4][1]))
    /\ \A n, m \in GraphNames :
           /\ ~same_graph_name(None, Some(n))
           /\ ~same_graph_name(Some(n), None)
           /\ same_graph_name(Some(n), Some(m)) <=> n = m
    /\ same_graph_name(None, None)

\* The dataset holds a quad in the default graph and a quad with the same
\* subject in a named graph; bound to the default graph the scan yields the
\* first only, bound to the name the second only.
C22_Witness ==
    /\ Len(ds) = 2
    /\ ds[1][1] = ds[2][1]
    /\ ds[1][4] = None /\ ds[2][4] # None
    /\ OkQuads(quads_with_sg(dataset, ds[1][1], None)) = <<ds[1]>>
    /\ OkQuads(quads_with_g(dataset, ds[2][4])) = <<ds[2]>>

\* Two quads with the same subject, predicate and object in different graphs.
SameTriple(q1, q2) == q1[1] = q2[1] /\ q1[2] = q2[2] /\ q1[3] = q2[3]
\* The number of quads that a full scan of the content c yields.
count(c) == Len(OkQuads(quads([content |-> c, fail |-> 0])))

\* C23: quads that differ in graph name only are distinct elements.  In every
\* reachable dataset state, for a stored quad q1 and a quad q2 with the same
\* subject, predicate and object in another graph (default against named, or
\* two names): if q2 is not stored, insert of q2 returns true, the size grows
\* by 1 and both are stored; if q2 is stored, remove of q1 returns true, the
\* size shrinks by 1 and q2 is still stored.
C23_GraphsDoNotCountAsDuplicate ==
    \A q1 \in Range(ds) : \A q2 \in Quads :
        (SameTriple(q1, q2) /\ q1[4] # q2[4]) =>
            LET ins == insert(ds, q2)
                rem == remove(ds, q1)
            IN  /\ q2 \notin Range(ds) =>
                       /\ ins.ret
                       /\ count(ins.content) = count(ds) + 1
                       /\ {q1, q2} \subseteq Range(ins.content)
                       /\ contains([content |-> ins.content, fail |-> 0],
                                   q2[1], q2[2], q2[3], q2[4]) = ResultOk(TRUE)
                /\ q2 \in Range(ds) =>
                       /\ rem.ret
                       /\ count(rem.content) = count(ds) - 1
                       /\ q1 \notin Range(rem.content)
                       /\ q2 \in Range(rem.content)
                       /\ contains([content |-> rem.content, fail |-> 0],
                                   q2[1], q2[2], q2[3], q2[4]) = ResultOk(TRUE)

\* The dataset holds the same triple in the default graph and in a named
\* graph, the second inserted while the first was stored; removing the first
\* leaves the second.
C23_Witness ==
    /\ Len(ds) = 2
    /\ SameTriple(ds[1], ds[2])
    /\ ds[1][4] = None /\ ds[2][4] = Some("G1")
    /\ insert(<<ds[1]>>, ds[2]) = [content |-> ds, ret |-> TRUE]
    /\ remove(ds, ds[1]) = [content |-> <<ds[2]>>, ret |-> TRUE]

\* C31: graph_names.  In every reachable dataset state, on a dataset whose
\* visit does not fail, graph_names returns exactly the set of the terms that
\* are the graph name Some(name) of a stored quad: a quad of the default
\* graph adds nothing, and no term that is subject, predicate or object only
\* is in the set.  On a dataset whose visit yields an error it returns the
\* error.
C31_GraphNames ==
    /\ graph_names(dataset) =
           ResultOk({n \in GraphNames : \E q \in Range(ds) : q[4] = Some(n)})
    /\ \A t \in QTerms : t \notin graph_names(dataset).val
    /\ (\A q \in Range(ds) : q[4] = None) => graph_names(dataset) = ResultOk({})
    /\ \A d \in Datasets : d.fail # 0 => graph_names(d) = ResultErr

\* The dataset holds a quad of the default graph and a quad of the graph G1:
\* graph_names is the set of G1 alone.
C31_Witness ==
    /\ Len(ds) = 2
    /\ ds[1][4] = None /\ ds[2][4] = Some("G1")
    /\ graph_names(dataset) = ResultOk({"G1"})

\* The methods quads_with_X as the code builds them: the scan each filters,
\* and the position it compares.
quads_with ==
    [s    |-> [over |-> "quads", eq |-> 1],
     p    |-> [over |-> "quads", eq |-> 2],
     o    |-> [over |-> "quads", eq |-> 3],
     g    |-> [over |-> "quads", eq |-> 4],
     sp   |-> [over |-> "s", eq |-> 2],
     so   |-> [over |-> "s", eq |-> 3],
     sg   |-> [over |-> "g", eq |-> 1],
     po   |-> [over |-> "p", eq |-> 3],
     pg   |-> [over |-> "g", eq |-> 2],
     og   |-> [over |-> "g", eq |-> 3],
     spo  |-> [over |-> "sp", eq |-> 3],
     spg  |-> [over |-> "sg", eq |-> 2],
     sog  |-> [over |-> "sg", eq |-> 3],
     pog  |-> [over |-> "pg", eq |-> 3],
     spog |-> [over |-> "spg", eq |-> 3]]

\* The arms of the match in quads_matching: for the positions whose matcher
\* has a constant (TRUE), the scan called and the positions at which the
\* closure calls matches().
quads_matching_arms ==
    {[some |-> <<FALSE, FALSE, FALSE, FALSE>>, calls |-> "quads", matches |-> {1, 2, 3, 4}],
     [some |-> <<TRUE, FALSE, FALSE, FALSE>>, calls |-> "s", matches |-> {2, 3, 4}],
     [some |-> <<FALSE, TRUE, FALSE, FALSE>>, calls |-> "p", matches |-> {1, 3, 4}],
     [some |-> <<FALSE, FALSE, TRUE, FALSE>>, calls |-> "o", matches |-> {1, 2, 4}],
     [some |-> <<FALSE, FALSE, FALSE, TRUE>>, calls |-> "g", matches |-> {1, 2, 3}],
     [some |-> <<TRUE, TRUE, FALSE, FALSE>>, calls |-> "sp", matches |-> {3, 4}],
     [some |-> <<TRUE, FALSE, TRUE, FALSE>>, calls |-> "so", matches |-> {2, 4}],
     [some |-> <<TRUE, FALSE, FALSE, TRUE>>, calls |-> "sg", matches |-> {2, 3}],
     [some |-> <<FALSE, TRUE, TRUE, FALSE>>, calls |-> "po", matches |-> {1, 4}],
     [some |-> <<FALSE, TRUE, FALSE, TRUE>>, calls |-> "pg", matches |-> {1, 3}],
     [some |-> <<FALSE, FALSE, TRUE, TRUE>>, calls |-> "og", matches |-> {1, 2}],
     [some |-> <<TRUE, TRUE, TRUE, FALSE>>, calls |-> "spo", matches |-> {4}],
     [some |-> <<TRUE, TRUE, FALSE, TRUE>>, calls |-> "spg", matches |-> {3}],
     [some |-> <<TRUE, FALSE, TRUE, TRUE>>, calls |-> "sog", matches |-> {2}],
     [some |-> <<FALSE, TRUE, TRUE, TRUE>>, calls |-> "pog", matches |-> {1}],
     [some |-> <<TRUE, TRUE, TRUE, TRUE>>, calls |-> "spog", matches |-> {}]}

\* The scans a scan is built on, itself first, down to quads(); the positions
\* it binds; the scan it starts from, the last before quads().
RECURSIVE Chain(_)
Chain(name) ==
    IF name = "quads" THEN <<>> ELSE <<name>> \o Chain(quads_with[name].over)
Bound(name) == {quads_with[Chain(name)[k]].eq : k \in 1..Len(Chain(name))}
StartsFrom(name) == Chain(name)[Len(Chain(name))]
Named(d, name, c) == IF name = "quads" THEN quads(d) ELSE ScanWith(d, Bound(name), c)

\* Matchers to observe which calls quads_matching makes: with a constant or
\* without, accepting every value or none, whatever the constant.
Probes(values, v) ==
    {[constant |-> k, accepts |-> a] : k \in {None, Some(v)}, a \in {{}, values}}

\* C32: the plan of quads_matching.  The match has one arm for each of the 16
\* combinations of matchers with and without a constant; the arm calls the
\* scan that binds exactly the positions with a constant and calls matches()
\* at exactly the other positions.  The scans are chained in a fixed order:
\* sp and so start from the scan by subject, po from the scan by predicate,
\* sg, pg and og from the scan by graph name, and the scans of three and four
\* positions are built on sp, sg or pg.  In every reachable dataset state the
\* methods yield what these tables say, also for a matcher whose matches()
\* rejects its own constant: quads_matching yields the quads of the scan of
\* its arm that the matchers without a constant accept, and each scan the
\* quads of the scan it is built on that have the constant at its position.
C32_PlanByConstants ==
    /\ \A some \in [1..4 -> BOOLEAN] :
           \E arm \in quads_matching_arms :
               /\ arm.some = some
               /\ \A other \in quads_matching_arms : other.some = some => other = arm
               /\ Bound(arm.calls) = {x \in Positions : some[x]}
               /\ arm.matches = Positions \ Bound(arm.calls)
    /\ StartsFrom("sp") = "s" /\ StartsFrom("so") = "s"
    /\ StartsFrom("po") = "p"
    /\ StartsFrom("sg") = "g" /\ StartsFrom("pg") = "g" /\ StartsFrom("og") = "g"
    /\ \A name \in {"spo", "spg", "sog", "pog", "spog"} :
           \E k \in 2..Len(Chain(name)) : Chain(name)[k] \in {"sp", "sg", "pg"}
    /\ \A c \in {<<"C1", "C2", "C1", Some("G1")>>, <<"C2", "C1", "C1", None>>} :
           /\ \A name \in DOMAIN quads_with :
                  Named(dataset, name, c) =
                      filter_ok(Named(dataset, quads_with[name].over, c),
                                LAMBDA q : q[quads_with[name].eq] = c[quads_with[name].eq])
           /\ \A ms \in Probes(QTerms, c[1]) : \A mp \in Probes(QTerms, c[2]) :
                \A mo \in Probes(QTerms, c[3]) : \A mg \in Probes(GraphName, c[4]) :
                  LET m == <<ms, mp, mo, mg>>
                      arm == CHOOSE a \in quads_matching_arms :
                                 \A x \in Positions : a.some[x] <=> constant(m[x]) # None
                  IN  quads_matching(dataset, ms, mp, mo, mg) =
                          filter_ok(Named(dataset, arm.calls, c),
                                    LAMBDA q : \A x \in arm.matches : matches(m[x], q[x]))

\* The dataset holds two quads with the same subject and different objects;
\* with the subject as constant of a matcher that accepts nothing,
\* quads_matching yields both, its matches() not being called; with the
\* object as constant too it yields the first alone.
C32_Witness ==
    /\ Len(ds) = 2
    /\ ds[1][1] = ds[2][1] /\ ds[1][3] # ds[2][3]
    /\ LET blind == [constant |-> Some(ds[1][1]), accepts |-> {}]
       IN  /\ OkQuads(quads_matching(dataset, blind, AnyTerm, AnyTerm, AnyGraph)) = ds
           /\ OkQuads(quads_matching(dataset, blind, AnyTerm, Exactly(ds[1][3]), AnyGraph))
                  = <<ds[1]>>

(***************************************************************************)
(* SpecStream and SpecMatching: the dataset of SpecData under its bulk     *)
(* mutations as well, from a source (SpecStream) and by matchers           *)
(* (SpecMatching).  The sources are made of the quads of make_quad_source  *)
(* and of errors; the backend accepts any number of writes or fails after  *)
(* some.                                                                   *)
(***************************************************************************)
MaxSource == 3

SourceQuads == {<<"C1", "C1", "C2", Some("G1")>>, <<"C1", "C2", "C2", Some("G1")>>}
SourceItems == {ItemErr} \cup {ItemOk(q) : q \in SourceQuads}
Sources == UNION {[1..n -> SourceItems] : n \in 0..MaxSource}
Writes == {None} \cup {Some(n) : n \in 0..MaxSource}
\* A backend that never fails, one that fails at once, one that fails its
\* second write.
SomeWrites == {None, Some(0), Some(1)}

\* The matchers of the tests: ANY, a term, a graph name, |g| g.is_some().
SomeTermMatchers == {AnyTerm, Exactly("C1")}
SomeGraphNameMatchers ==
    {AnyGraph, Exactly(None),
     [constant |-> None, accepts |-> {Some(n) : n \in GraphNames}]}

\* The mutable dataset with the content of the state, its scan failing at
\* place f (0: never) and its backend accepting w writes (None: any number).
MD(f, w) == [content |-> ds, fail |-> f, writes |-> w]
mutable == MD(0, None)

InsertAll(src, w) ==
    LET r == insert_all(MD(0, w), src)
    IN  /\ Len(r.md.content) <= MaxQuads
        /\ ds' = r.md.content
        /\ UNCHANGED <<overflow_checks, panicked, dictVars, graphVars, widthVars, sourceVars>>

RemoveAll(src, w) ==
    /\ ds' = remove_all(MD(0, w), src).md.content
    /\ UNCHANGED <<overflow_checks, panicked, dictVars, graphVars, widthVars, sourceVars>>

RemoveMatching(ms, mp, mo, mg, f, w) ==
    /\ ds' = remove_matching(MD(f, w), ms, mp, mo, mg).md.content
    /\ UNCHANGED <<overflow_checks, panicked, dictVars, graphVars, widthVars, sourceVars>>

RetainMatching(ms, mp, mo, mg, f, w) ==
    /\ ds' = retain_matching(MD(f, w), ms, mp, mo, mg).md.content
    /\ UNCHANGED <<overflow_checks, panicked, dictVars, graphVars, widthVars, sourceVars>>

NextStream ==
    \/ \E q \in Quads : DataInsert(q)
    \/ \E q \in Quads : DataRemove(q)
    \/ \E src \in Sources : \E w \in Writes : InsertAll(src, w)
    \/ \E src \in Sources : \E w \in Writes : RemoveAll(src, w)

SpecStream == InitData /\ [][NextStream]_vars

NextMatching ==
    \/ \E q \in Quads : DataInsert(q)
    \/ \E q \in Quads : DataRemove(q)
    \/ \E ms, mp, mo \in SomeTermMatchers : \E mg \in SomeGraphNameMatchers :
           \E f \in 0..(Len(ds) + 1) : \E w \in SomeWrites :
               RemoveMatching(ms, mp, mo, mg, f, w)
    \/ \E ms, mp, mo \in SomeTermMatchers : \E mg \in SomeGraphNameMatchers :
           \E f \in 0..(Len(ds) + 1) : \E w \in SomeWrites :
               RetainMatching(ms, mp, mo, mg, f, w)

SpecMatching == InitData /\ [][NextMatching]_vars

(***************************************************************************)
(* Claims about the mutations from a source, checked under SpecStream.     *)
(***************************************************************************)
\* The source that delivers no error.
AllOk(src) == \A k \in 1..Len(src) : src[k].ok

\* C24: the count of insert_all.  In every reachable dataset state, for every
\* source and a backend that never fails: insert_all returns a count exactly
\* when the source delivers no error; the count is the number of different
\* quads of the source that were not stored (a quad repeated in the source
\* counts once), the size grows by that number and the content is the union;
\* inserting the same source again returns 0 and leaves the content as it is.
C24_InsertAllCount ==
    \A src \in Sources :
        LET r == insert_all(mutable, src)
            fresh == Range(OkQuads(src)) \ Range(ds)
            again == insert_all(r.md, src)
        IN  /\ r.res.kind = "Ok" <=> AllOk(src)
            /\ AllOk(src) =>
                   /\ r.res = StreamOk(Cardinality(fresh))
                   /\ count(r.md.content) = count(ds) + Cardinality(fresh)
                   /\ Range(r.md.content) = Range(ds) \cup Range(OkQuads(src))
                   /\ again.res = StreamOk(0)
                   /\ again.md = r.md

\* The two quads of make_quad_source, in the order of the source.
make_quad_source ==
    <<ItemOk(<<"C1", "C1", "C2", Some("G1")>>), ItemOk(<<"C1", "C2", "C2", Some("G1")>>)>>

\* The dataset holds the two quads of make_quad_source and nothing else:
\* insert_all of them into the empty dataset returned 2 and gave this content,
\* with the first quad repeated in the source as well; again it returns 0.
C24_Witness ==
    /\ Range(ds) = Range(OkQuads(make_quad_source))
    /\ insert_all([mutable EXCEPT !.content = <<>>], make_quad_source).res = StreamOk(2)
    /\ insert_all([mutable EXCEPT !.content = <<>>], make_quad_source).md = mutable
    /\ insert_all([mutable EXCEPT !.content = <<>>],
                  <<make_quad_source[1]>> \o make_quad_source).res = StreamOk(2)
    /\ insert_all(mutable, make_quad_source).res = StreamOk(0)

\* C25: the count of remove_all.  In every reachable dataset state, for every
\* source and a backend that never fails: remove_all returns a count exactly
\* when the source delivers no error; the count is the number of different
\* quads of the source that were stored, the size shrinks by that number and
\* the content is what the source does not name; removing the same source
\* again returns 0 and leaves the content as it is.
C25_RemoveAllCount ==
    \A src \in Sources :
        LET r == remove_all(mutable, src)
            stored_ == Range(OkQuads(src)) \cap Range(ds)
            again == remove_all(r.md, src)
        IN  /\ r.res.kind = "Ok" <=> AllOk(src)
            /\ AllOk(src) =>
                   /\ r.res = StreamOk(Cardinality(stored_))
                   /\ count(r.md.content) = count(ds) - Cardinality(stored_)
                   /\ Range(r.md.content) = Range(ds) \ Range(OkQuads(src))
                   /\ again.res = StreamOk(0)
                   /\ again.md = r.md

\* The dataset holds one quad that make_quad_source does not deliver: it is
\* what remove_all of that source leaves of this quad and the first of the
\* source, returning 1; on the dataset itself remove_all returns 0.
C25_Witness ==
    /\ Len(ds) = 1
    /\ ds[1] \notin Range(OkQuads(make_quad_source))
    /\ LET before == insert(ds, make_quad_source[1].quad).content
           r == remove_all([mutable EXCEPT !.content = before], make_quad_source)
       IN  r.res = StreamOk(1) /\ r.md = mutable
    /\ remove_all(mutable, make_quad_source).res = StreamOk(0)

\* The number of quads a source delivers before its first error.
OkPrefix(src) == Cardinality({k \in 1..Len(src) : \A j \in 1..k : src[j].ok})
\* The calls that a drain of the items makes, for the closure f.
Calls(f, items) ==
    [k \in 1..Len(items) |->
        Ev(IF f = "insert_all" THEN "insert" ELSE "remove", items[k].quad)]

\* C26: stream short-circuit.  In every reachable dataset state, for every
\* source and every N such that the source delivers N quads before any error
\* and the backend fails its N-th write: try_for_each_quad with the closure of
\* insert_all or of remove_all, and so insert_all and remove_all, return the
\* error of the sink; the closure has been called for the first N items and
\* for no later one, which are left in the source; and the content is the one
\* that the first N-1 items alone give, item N having no effect.
C26_ShortCircuit ==
    \A src \in Sources : \A N \in 1..MaxSource : \A f \in {"insert_all", "remove_all"} :
        (OkPrefix(src) >= N) =>
            LET m == MD(0, Some(N - 1))
                r == IF f = "insert_all" THEN insert_all(m, src) ELSE remove_all(m, src)
                t == try_for_each_quad(src, f, [md |-> m, c |-> 0, log |-> <<>>])
                part == SubSeq(src, 1, N - 1)
                alone == IF f = "insert_all" THEN insert_all(mutable, part)
                         ELSE remove_all(mutable, part)
            IN  /\ t.res = SinkError
                /\ r.res = SinkError
                /\ r.log = Calls(f, SubSeq(src, 1, N))
                /\ r.src = SubSeq(src, N + 1, Len(src))
                /\ alone.res.kind = "Ok"
                /\ r.md.content = alone.md.content

\* The dataset holds the first quad of make_quad_source and nothing else: it
\* is what insert_all of that source leaves of the empty dataset when the
\* second insert fails, and what remove_all leaves of both quads when the
\* second remove fails.
C26_Witness ==
    /\ ds = <<make_quad_source[1].quad>>
    /\ LET r == insert_all([content |-> <<>>, fail |-> 0, writes |-> Some(1)],
                           make_quad_source)
       IN  r.res = SinkError /\ r.md.content = ds /\ Len(r.log) = 2
    /\ LET both == insert(ds, make_quad_source[2].quad).content
           r == remove_all([content |-> both, fail |-> 0, writes |-> Some(1)],
                           <<make_quad_source[2], make_quad_source[1]>>)
       IN  r.res = SinkError /\ r.md.content = ds /\ Len(r.log) = 2

\* C27: no rollback on a failure of the source.  In every reachable dataset
\* state, for every source that fails after delivering k quads and a backend
\* that accepts these k writes: insert_all and remove_all return the error of
\* the source, neither a count nor an error of the sink; insert or remove has
\* been called for the k quads and for nothing after the error, the items
\* after it being left in the source; and the content is the one that the k
\* quads give.
C27_NoRollbackOnSourceFailure ==
    \A src \in Sources : \A f \in {"insert_all", "remove_all"} :
        \A w \in {None} \cup {Some(n) : n \in OkPrefix(src)..MaxSource} :
            LET k == OkPrefix(src)
                m == MD(0, w)
                r == IF f = "insert_all" THEN insert_all(m, src) ELSE remove_all(m, src)
                part == SubSeq(src, 1, k)
                alone == IF f = "insert_all" THEN insert_all(mutable, part)
                         ELSE remove_all(mutable, part)
            IN  (k < Len(src)) =>
                    /\ r.res = SourceError
                    /\ r.log = Calls(f, part)
                    /\ r.src = SubSeq(src, k + 2, Len(src))
                    /\ alone.res.kind = "Ok"
                    /\ r.md.content = alone.md.content

\* The dataset holds the first quad of make_quad_source and another quad, the
\* first inserted by an insert_all whose source failed before its second
\* quad: the call returned the error of the source and the quad stayed.
C27_Witness ==
    /\ Len(ds) = 2
    /\ make_quad_source[1].quad \in Range(ds)
    /\ make_quad_source[2].quad \notin Range(ds)
    /\ LET before == remove(ds, make_quad_source[1].quad).content
           r == insert_all([mutable EXCEPT !.content = before],
                           <<make_quad_source[1], ItemErr, make_quad_source[2]>>)
       IN  r.res = SourceError /\ r.md = mutable /\ Len(r.log) = 1

(***************************************************************************)
(* Claims about the mutations by matchers, checked under SpecMatching.     *)
(***************************************************************************)
\* The quads of the content c that all four matchers accept.
Matched(c, ms, mp, mo, mg) ==
    {q \in Range(c) : matches(ms, q[1]) /\ matches(mp, q[2])
                          /\ matches(mo, q[3]) /\ matches(mg, q[4])}

\* C28: remove_matching removes the matched quads and nothing else.  In
\* every reachable dataset state, for a subject matcher and a graph name
\* matcher of every kind (with a constant or without, accepting any set of
\* values) and the predicate and object matchers of the tests: on a dataset
\* whose scan and backend do not fail the call returns a count; that count is
\* the number of quads that matched before the call, no quad left matches,
\* and every quad that did not match is still stored.  Whenever the call
\* returns a count, also on a dataset that may fail, the same holds; when it
\* returns an error no quad that did not match has been removed.
C28_RemoveMatching ==
    /\ \A ms \in TermMatchers : \A mp, mo \in SomeTermMatchers :
         \A mg \in GraphNameMatchers :
           LET r == remove_matching(mutable, ms, mp, mo, mg)
               matched == Matched(ds, ms, mp, mo, mg)
           IN  /\ r.res = ResultOk(Cardinality(matched))
               /\ Matched(r.md.content, ms, mp, mo, mg) = {}
               /\ Range(r.md.content) = Range(ds) \ matched
               /\ count(r.md.content) = count(ds) - Cardinality(matched)
    /\ \A ms, mp, mo \in SomeTermMatchers : \A mg \in SomeGraphNameMatchers :
           \A f \in 0..(Len(ds) + 1) : \A w \in SomeWrites :
               LET r == remove_matching(MD(f, w), ms, mp, mo, mg)
                   matched == Matched(ds, ms, mp, mo, mg)
               IN  /\ r.res.ok =>
                          /\ r.res.val = Cardinality(matched)
                          /\ Range(r.md.content) = Range(ds) \ matched
                   /\ Range(ds) \ matched \subseteq Range(r.md.content)
                   /\ Range(r.md.content) \subseteq Range(ds)

\* The dataset holds a quad of the default graph only: it is what
\* remove_matching with the matcher |g| g.is_some() for the graph name, and
\* ANY elsewhere, leaves of this quad and one of a named graph, returning 1.
C28_Witness ==
    /\ Len(ds) = 1
    /\ ds[1][4] = None
    /\ LET is_some == [constant |-> None, accepts |-> {Some(n) : n \in GraphNames}]
           before == insert(ds, <<ds[1][1], ds[1][2], ds[1][3], Some("G1")>>).content
           r == remove_matching([mutable EXCEPT !.content = before],
                                AnyTerm, AnyTerm, AnyTerm, is_some)
       IN  r.res = ResultOk(1) /\ r.md = mutable

\* C29: retain_matching keeps the matched quads and nothing else.  In every
\* reachable dataset state, for a subject matcher and a graph name matcher
\* of every kind (with a constant or without, accepting any set of values)
\* and the predicate and object matchers of the tests, on a dataset whose
\* scan and backend do not fail: the call succeeds and the content afterwards
\* is the set of quads that matched before the call; remove_matching with the
\* same matchers on the same content leaves the other quads, so that the two
\* contents are disjoint and together the content before.  Whenever the call
\* succeeds, also on a dataset that may fail, the content is the matched quads.
C29_RetainMatching ==
    /\ \A ms \in TermMatchers : \A mp, mo \in SomeTermMatchers :
         \A mg \in GraphNameMatchers :
           LET kept == retain_matching(mutable, ms, mp, mo, mg)
               removed == remove_matching(mutable, ms, mp, mo, mg)
               matched == Matched(ds, ms, mp, mo, mg)
           IN  /\ kept.res = ResultOk(<<>>)
               /\ Range(kept.md.content) = matched
               /\ Range(kept.md.content) \cap Range(removed.md.content) = {}
               /\ Range(kept.md.content) \cup Range(removed.md.content) = Range(ds)
               /\ count(kept.md.content) + count(removed.md.content) = count(ds)
    /\ \A ms, mp, mo \in SomeTermMatchers : \A mg \in SomeGraphNameMatchers :
           \A f \in 0..(Len(ds) + 1) : \A w \in SomeWrites :
               LET kept == retain_matching(MD(f, w), ms, mp, mo, mg)
                   matched == Matched(ds, ms, mp, mo, mg)
               IN  /\ kept.res.ok => Range(kept.md.content) = matched
                   /\ matched \subseteq Range(kept.md.content)
                   /\ Range(kept.md.content) \subseteq Range(ds)

\* The dataset holds two quads with different subjects; with the first
\* subject as matcher, and ANY elsewhere, retain_matching leaves the first
\* quad and remove_matching the second.
C29_Witness ==
    /\ Len(ds) = 2
    /\ ds[1][1] # ds[2][1]
    /\ retain_matching(mutable, Exactly(ds[1][1]), AnyTerm, AnyTerm, AnyGraph).md.content
           = <<ds[1]>>
    /\ remove_matching(mutable, Exactly(ds[1][1]), AnyTerm, AnyTerm, AnyGraph).md.content
           = <<ds[2]>>

\* The places of the log at which an event of one of the kinds stands.
Places(log, kinds) == {k \in 1..Len(log) : log[k].ev \in kinds}
\* The quads of the events of the kind, in the order of the log.
QuadsOf(log, kind) ==
    LET sel == SelectSeq(log, LAMBDA e : e.ev = kind)
    IN  [k \in 1..Len(sel) |-> sel[k].quad]

\* The log of a run that collects, then mutates: the scan is visited to its
\* end or to its first error, which happens once; every call of remove comes
\* after that; after an error there is none; and the quads remove is called
\* for are the quads the scan yielded, in that order, up to the first call
\* that fails.
CollectThenMutate(log) ==
    /\ Cardinality(Places(log, {"none", "err"})) = 1
    /\ \A k \in Places(log, {"next"}) : \A e \in Places(log, {"none", "err"}) : k < e
    /\ \A k \in Places(log, {"remove"}) : \A e \in Places(log, {"next", "none"}) : e < k
    /\ Places(log, {"err"}) # {} => Places(log, {"remove"}) = {}
    /\ LET snapshot == QuadsOf(log, "next")
           removed == QuadsOf(log, "remove")
       IN  /\ Len(removed) <= Len(snapshot)
           /\ removed = SubSeq(snapshot, 1, Len(removed))
    /\ Places(log, {"insert"}) = {}

\* C30: collect-then-mutate.  In every reachable dataset state, for the
\* matchers of the tests, every place at which the scan may fail and a
\* backend that never fails, fails at once or fails its second write, the
\* run of remove_matching and of retain_matching
\* first visits the scan to its end (or to its first error, and then removes
\* nothing), and only then calls remove, for the quads of the snapshot in
\* their order: no call of remove stands before a step of the scan.
C30_CollectThenMutate ==
    \A ms, mp, mo \in SomeTermMatchers : \A mg \in SomeGraphNameMatchers :
        \A f \in 0..(Len(ds) + 1) : \A w \in SomeWrites :
            /\ CollectThenMutate(remove_matching(MD(f, w), ms, mp, mo, mg).log)
            /\ CollectThenMutate(retain_matching(MD(f, w), ms, mp, mo, mg).log)
            /\ (f = 0 /\ w = None) =>
                   LET log == remove_matching(MD(f, w), ms, mp, mo, mg).log
                   IN  QuadsOf(log, "remove") = QuadsOf(log, "next")

\* The dataset holds two quads of different named graphs: remove_matching of
\* the quads of named graphs visits both, reaches the end of the scan and then
\* removes both; retain_matching of the first graph visits the second quad,
\* reaches the end and then removes it.
C30_Witness ==
    /\ Len(ds) = 2
    /\ ds[1][4] = Some("G1") /\ ds[2][4] = Some("G2")
    /\ LET is_some == [constant |-> None, accepts |-> {Some(n) : n \in GraphNames}]
       IN  remove_matching(mutable, AnyTerm, AnyTerm, AnyTerm, is_some).log
               = <<Ev("next", ds[1]), Ev("next", ds[2]), Ev("none", <<>>),
                   Ev("remove", ds[1]), Ev("remove", ds[2])>>
    /\ retain_matching(mutable, AnyTerm, AnyTerm, AnyTerm, Exactly(Some("G1"))).log
           = <<Ev("next", ds[2]), Ev("none", <<>>), Ev("remove", ds[2])>>

\* The scan yields an error.
ScanFails(it) == \E k \in 1..Len(it) : ~it[k].ok

\* The outcome of a run on m that returned the error of the scan: the error
\* is returned, the store is as it was, and the run ended with the error of
\* the scan without a call of remove.
ScanErrorReturned(m, r) ==
    /\ r.res = ResultErr
    /\ r.md = m
    /\ r.log # <<>> /\ r.log[Len(r.log)] = Ev("err", <<>>)
    /\ Places(r.log, {"remove", "insert"}) = {}

\* C36: an error of the scan leaves the store unchanged.  In every reachable
\* dataset state, for the matchers of the tests, every place at which the
\* scan may fail and every backend: if the scan inside remove_matching or
\* retain_matching yields an error, the method returns the error and the
\* store is unchanged; the error ends the collecting of the snapshot, and
\* remove is not called.
C36_ScanErrorLeavesStore ==
    \A ms, mp, mo \in SomeTermMatchers : \A mg \in SomeGraphNameMatchers :
        \A f \in 0..(Len(ds) + 1) : \A w \in SomeWrites :
            LET m == MD(f, w)
            IN  /\ ScanFails(quads_matching(m, ms, mp, mo, mg)) =>
                       ScanErrorReturned(m, remove_matching(m, ms, mp, mo, mg))
                /\ ScanFails(quads(m)) =>
                       ScanErrorReturned(m, retain_matching(m, ms, mp, mo, mg))
                /\ f # 0 => ScanFails(quads_matching(m, ms, mp, mo, mg))

\* The dataset holds two quads and its scan fails after the first: the
\* remove_matching of everything and the retain_matching of nothing visit the
\* first quad, meet the error, return it and leave both quads stored.
C36_Witness ==
    /\ Len(ds) = 2
    /\ LET m == MD(2, None)
           nothing == [constant |-> None, accepts |-> {}]
           r == remove_matching(m, AnyTerm, AnyTerm, AnyTerm, AnyGraph)
           t == retain_matching(m, nothing, AnyTerm, AnyTerm, AnyGraph)
       IN  /\ r.res = ResultErr /\ r.md.content = ds
           /\ r.log = <<Ev("next", ds[1]), Ev("err", <<>>)>>
           /\ t.res = ResultErr /\ t.md.content = ds
           /\ t.log = <<Ev("next", ds[1]), Ev("err", <<>>)>>

(***************************************************************************)
(* SpecDrain: the loop of try_for_each_quad, one call of try_for_some_quad *)
(* per step, on a source that feeds one item or more per call.  The        *)
(* closure never fails.                                                    *)
(***************************************************************************)
\* A call of try_for_some_quad on a source that feeds up to n of its items:
\* the items up to the first error among them are consumed, and the closure
\* is called on the quads before it.  Without an error the call returns true
\* while items remain; after its last item the source may tell at once that
\* it is exhausted, or on the next call (more).
try_for_some_quad_of(src, n, more) ==
    LET m == IF n < Len(src) THEN n ELSE Len(src)
        errs == {k \in 1..m : ~src[k].ok}
        e == CHOOSE k \in errs : \A j \in errs : k <= j
    IN  IF src = <<>>
        THEN [src |-> src, fed |-> <<>>, res |-> StreamOk(FALSE)]
        ELSE IF errs # {}
        THEN [src |-> SubSeq(src, e + 1, Len(src)),
              fed |-> [k \in 1..(e - 1) |-> src[k].quad], res |-> SourceError]
        ELSE [src |-> SubSeq(src, m + 1, Len(src)),
              fed |-> [k \in 1..m |-> src[k].quad],
              res |-> StreamOk(m < Len(src) \/ more)]

\* A loop that stops after the first call of try_for_some_quad.
try_for_each_quad_once(res) ==
    IF res.kind # "Ok" THEN Some(res) ELSE Some(StreamOk(<<>>))

\* One turn of `while self.try_for_some_quad(&mut f)? {}`, for what the call
\* returned: the error is returned, true goes on (None), false leaves the
\* loop and Ok(()) is returned.
try_for_each_quad_turn(res) ==
    IF res.kind # "Ok" THEN Some(res)
    ELSE IF res.val THEN None
    ELSE Some(StreamOk(<<>>))

InitDrain ==
    /\ overflow_checks = FALSE
    /\ panicked = FALSE
    /\ drain_items \in Sources
    /\ drain_source = drain_items
    /\ drain_f = <<>>
    /\ drain_calls = 0
    /\ drain_ret = None
    /\ IdleDict /\ IdleGraph /\ IdleWidth /\ IdleData /\ IdleCollect

\* The loop calls try_for_some_quad once more.
TryForSomeQuad(n, more) ==
    /\ drain_ret = None
    /\ LET r == try_for_some_quad_of(drain_source, n, more)
       IN  /\ drain_source' = r.src
           /\ drain_f' = drain_f \o r.fed
           /\ drain_ret' = try_for_each_quad_turn(r.res)
    /\ drain_calls' = drain_calls + 1
    /\ UNCHANGED <<drain_items, overflow_checks, panicked,
                   dictVars, graphVars, widthVars, dataVars, collectVars>>

NextDrain ==
    \E n \in 1..MaxSource : \E more \in BOOLEAN : TryForSomeQuad(n, more)

\* The loop is sequential code: while it has not returned, it makes its next
\* call.
SpecDrain == InitDrain /\ [][NextDrain]_vars /\ WF_vars(NextDrain)

QuadsOfItems(src) == [k \in 1..Len(src) |-> src[k].quad]

\* C33: draining terminates and is complete.  For a source of finitely many
\* items, none of them an error, that feeds one item or more per call while
\* items remain and returns false once exhausted, and a closure that never
\* fails: try_for_each_quad eventually returns Ok(()); when it returns, the
\* source is exhausted and the closure has been called exactly once on every
\* item, in the order of the source; while it runs, the closure has been
\* called on exactly the items consumed so far, and the loop has made no call
\* that fed nothing other than the last.
C33_DrainTerminates ==
    /\ [](AllOk(drain_items) =>
            /\ drain_f \o QuadsOfItems(drain_source) = QuadsOfItems(drain_items)
            /\ drain_calls <= Len(drain_f) + 1
            /\ drain_ret \in {None, Some(StreamOk(<<>>))}
            /\ drain_ret # None =>
                   /\ drain_source = <<>>
                   /\ drain_f = QuadsOfItems(drain_items))
    /\ (AllOk(drain_items) /\ drain_ret = None) ~>
           (drain_ret = Some(StreamOk(<<>>)) /\ drain_f = QuadsOfItems(drain_items))

\* Three items drained in three calls: two items fed by the first call, the
\* last by the second, and the third call returned false.
C33_Witness ==
    /\ AllOk(drain_items) /\ Len(drain_items) = 3
    /\ drain_items[1] # drain_items[2]
    /\ drain_calls = 3
    /\ drain_ret = Some(StreamOk(<<>>))
    /\ drain_f = QuadsOfItems(drain_items)

(***************************************************************************)
(* SpecCollect: a HashGraph built by from_triple_source from a triple      *)
(* source of up to MaxSource items and any size hint.                      *)
(***************************************************************************)
\* The items of a triple source: a triple of terms, or an error.
TripleOk(t) == [ok |-> TRUE, triple |-> t]
TripleErr == [ok |-> FALSE, triple |-> <<>>]
\* What a call on a triple source returns: the graph it leaves, the result,
\* whether it panicked.
Collected(d, tr, r, pan) == [terms |-> d, triples |-> tr, res |-> r, panic |-> pan]

\* HashSet::with_capacity and HashSet::default: the empty set; capacity is no
\* part of the set.
HashSet_with_capacity(cap) == {}
HashSet_default == {}

\* MutableGraph::insert_all on a HashGraph: the items of the source are
\* inserted one by one, through insert_indexed, up to the first error of the
\* source; c counts the triples that were new.
RECURSIVE MutableGraph_insert_all(_, _, _, _)
MutableGraph_insert_all(d, tr, src, c) ==
    IF src = <<>> THEN Collected(d, tr, StreamOk(c), FALSE)
    ELSE IF ~Head(src).ok THEN Collected(d, tr, SourceError, FALSE)
    ELSE CHOOSE out \in
             {IF r.panic THEN Collected(r.terms, r.triples, SourceError, TRUE)
              ELSE MutableGraph_insert_all(r.terms, r.triples, Tail(src),
                                           c + (IF r.ret # None THEN 1 ELSE 0))
                 : r \in {insert_indexed(d, tr, Head(src).triple[1],
                                         Head(src).triple[2], Head(src).triple[3])}}
             : TRUE

\* from_triple_source that reads as many items as the size hint announces,
\* when it announces any.
from_triple_source_upto_hint(src, hint) ==
    LET cap == IF hint[2] # None THEN hint[2][1] ELSE hint[1]
        n == IF cap > 0 /\ cap < Len(src) THEN cap ELSE Len(src)
    IN  MutableGraph_insert_all(new(U16Values), HashSet_default, SubSeq(src, 1, n), 0)

\* from_triple_source(triples), hint being what size_hint_triples() returns.
\* The graph of the outcome is the one returned when res is Ok; otherwise it
\* is dropped.
from_triple_source(src, hint) ==
    LET tmin == hint[1]
        tmax == hint[2]
        cap == IF tmax # None THEN tmax[1] ELSE tmin
        set == IF cap > 0 \/ tmax = Some(0) THEN HashSet_with_capacity(cap)
               ELSE HashSet_default
    IN  MutableGraph_insert_all(new(U16Values), set, src, 0)

\* The triples offered by the sources, two of them sharing two terms and one
\* repeating a term, and the sources of up to MaxSource items.
SourceTriples == {<<1, 1, 2>>, <<1, 2, 2>>, <<2, 2, 2>>}
TripleItems == {TripleErr} \cup {TripleOk(t) : t \in SourceTriples}
TripleSources == UNION {[1..n -> TripleItems] : n \in 0..MaxSource}
\* Size hints: none, an exact maximum of 0, a minimum alone, a maximum below
\* and one above the number of items.
SizeHints == {<<0, None>>, <<0, Some(0)>>, <<1, None>>, <<0, Some(1)>>, <<0, Some(5)>>}

InitCollect ==
    /\ overflow_checks = FALSE
    /\ panicked = FALSE
    /\ tsource \in [items : TripleSources, hint : SizeHints]
    /\ collected = None
    /\ terms = new(U16Values)
    /\ triples = {}
    /\ glast = [op |-> "new", some |-> FALSE, live3 |-> FALSE]
    /\ stored = {}
    /\ IdleDict /\ IdleWidth /\ IdleData /\ IdleDrain

\* HashGraph::from_triple_source(tsource): when it returns a graph, the graph
\* is in terms and triples; when it returns the error there is no graph.
FromTripleSource ==
    /\ collected = None
    /\ LET r == from_triple_source(tsource.items, tsource.hint)
           ok == r.res.kind = "Ok" /\ ~r.panic
       IN  /\ collected' = Some(r.res.kind)
           /\ panicked' = r.panic
           /\ terms' = IF ok THEN r.terms ELSE terms
           /\ triples' = IF ok THEN r.triples ELSE triples
           /\ glast' = [op |-> "from_triple_source", some |-> ok, live3 |-> FALSE]
           /\ stored' = IF ok THEN {tsource.items[k].triple : k \in 1..Len(tsource.items)}
                        ELSE stored
    /\ UNCHANGED <<tsource, overflow_checks, dictVars, widthVars, dataVars, drainVars>>

NextCollect == FromTripleSource

SpecCollect == InitCollect /\ [][NextCollect]_vars

\* C38: from_triple_source builds a graph from an empty dictionary by
\* insert_all.  When no item of the source is an error, a graph is returned
\* without panic; it yields exactly the distinct triples of the source, len()
\* is their number whatever the size hint was, and the refcount of every live
\* index is the number of its occurrences in the stored triples.  When an
\* item of the source is an error, the error of the source is returned and no
\* graph.
C38_FromTripleSource ==
    collected # None =>
        LET items == tsource.items
            distinct == {items[k].triple : k \in 1..Len(items)}
        IN  IF AllOk(items)
            THEN /\ collected = Some("Ok") /\ ~panicked /\ glast.some
                 /\ Yielded(terms, triples) = {Yield(t[1], t[2], t[3]) : t \in distinct}
                 /\ len(triples) = Cardinality(distinct)
                 /\ \A i \in Live(terms) : terms.i2c[i + 1] = Occurrences(triples, i)
            ELSE /\ collected = Some("SourceError") /\ ~glast.some
                 /\ terms = new(U16Values) /\ triples = {}

\* A source of three items, two of them the same triple, with a size hint of
\* at most one item: the graph returned holds two triples, and the term used
\* four times has a refcount of 4.
C38_Witness ==
    /\ collected = Some("Ok")
    /\ Len(tsource.items) = 3 /\ tsource.items[1] = tsource.items[3]
    /\ tsource.hint = <<0, Some(1)>>
    /\ len(triples) = 2
    /\ \E i \in Live(terms) : terms.i2c[i + 1] = 4

(***************************************************************************)
(* Claims about the index width, checked under SpecWidth.                  *)
(***************************************************************************)
\* C9: make_index never fails.  With a w-bit index type, neither the refcount
\* increment (i2c[i] += 1) nor the free-list head increment (next_free += 1) of
\* make_index overflows, and no call of make_index panics.
C9_MakeIndexNeverOverflows == ~wrapped /\ ~wpanic[1]

\* C10: the index width is not a semantic difference.  While the number of slots
\* stays within the narrow type's capacity, the narrow and the wide dictionary
\* return the same indices and the same lookup results at every step.
C10_WidthsAgree == wret[1] = wret[2] /\ wpanic[1] = wpanic[2]

====
